---- MODULE Spec2Model ----
(***************************************************************************)
(* Model of JordanOpenFinanceService (src/unnamed/part_011, lines 479-1129)*)
(* the Open Finance aggregation client: request headers, the accounts ->   *)
(* balances aggregation, the account-dependent FX resolver, and the        *)
(* consent, payment and transfer operations with their sandbox branches.   *)
(*                                                                         *)
(* Python dicts are functions from key strings to values; a key that is    *)
(* absent from the dict is absent from the DOMAIN.  Every await on the     *)
(* partner is one step of the model; the partner's answer to each call is  *)
(* chosen nondeterministically from a small set of responses.              *)
(* Money amounts are integers in 1/100 units, FX rates in 1/1000 units.    *)
(***************************************************************************)
EXTENDS Integers, Sequences, FiniteSets, TLC

\* ---------------------------------------------------------------- bounds
MaxAccounts == 2
MaxOps == 2

\* ------------------------------------------------------------- constants
VerifyLimit == 50
DefaultLimit == 10
DefaultRate == 1000
NoneNum == -1
None == "None"

\* ------------------------------------------------------- dict primitives
EmptyDict == <<>>

\* dict.get(k, default)
Get(d, k, default) == IF k \in DOMAIN d THEN d[k] ELSE default

\* {**d, k1: v1, k2: v2}
Merge2(d, k1, v1, k2, v2) ==
  [k \in (DOMAIN d) \cup {k1, k2} |->
     IF k = k1 THEN v1 ELSE IF k = k2 THEN v2 ELSE d[k]]

\* ------------------------------------------------------ partner universe
acc_1 == [accountId |-> "acc_1", currency |-> "JOD",
          balance |-> [current |-> 10000, available |-> 9000],
          lastUpdated |-> "t_acc"]
acc_2 == [accountId |-> "acc_2", currency |-> "USD",
          balance |-> [current |-> 20050, available |-> 20050]]
acc_3 == [accountId |-> "acc_3",
          balance |-> [current |-> 5025, available |-> 5000]]
acc_noid == [accountName |-> "unnamed", currency |-> "EUR",
             balance |-> [current |-> 700, available |-> 700]]

RawAccounts == {acc_1, acc_2, acc_3, acc_noid}
AccountIds == {"acc_2", "acc_3", "acc_9"}

\* sequences over S of length at most n
RECURSIVE SeqsUpTo(_, _)
SeqsUpTo(S, n) ==
  IF n = 0 THEN {<<>>}
  ELSE LET shorter == SeqsUpTo(S, n - 1)
       IN shorter \cup
          {Append(s, x) : s \in {t \in shorter : Len(t) = n - 1},
                          x \in S}

Distinct(s) == \A i, j \in DOMAIN s : i # j => s[i] # s[j]

\* the partner lists an account once
AccountLists == {l \in SeqsUpTo(RawAccounts, MaxAccounts) : Distinct(l)}

\* bodies of a 200 answer of the accounts-list endpoint; hasMore is optional
AccountsBodies ==
  {[accounts |-> l, hasMore |-> TRUE] : l \in AccountLists}
  \cup {[accounts |-> l] : l \in {t \in AccountLists : Len(t) <= 1}}
  \cup {EmptyDict}

line_1 == [type |-> "ClosingAvailable", amount |-> 9000, currency |-> "JOD"]
line_2 == [type |-> "ClosingBooked", amount |-> 20050, currency |-> "USD"]

\* bodies of a 200 answer of the balances endpoint
BalanceBodies ==
  {[balances |-> <<line_1>>, lastUpdated |-> "t_bal"],
   [balances |-> <<line_2, line_1>>],
   EmptyDict}

\* an HTTP exchange: a transport failure (httpx raises) or a status + body
HttpStatuses == {200, 201, 401, 500}
ErrorStatuses == HttpStatuses \ {200}
TransportFailure == [transport |-> TRUE, status |-> 0, body |-> EmptyDict, text |-> "timeout"]
NoAnswer == [transport |-> FALSE, status |-> 0, body |-> EmptyDict, text |-> ""]
HttpAnswer(s, b) == [transport |-> FALSE, status |-> s, body |-> b, text |-> "body"]

AccountsAnswers ==
  {HttpAnswer(200, b) : b \in AccountsBodies}
  \cup {HttpAnswer(s, EmptyDict) : s \in ErrorStatuses} \cup {TransportFailure}

\* the accounts a partner holds for a customer with one account more than a
\* verification page: VerifyLimit accounts, then acc_9
BigHolding ==
  [k \in 1..(VerifyLimit + 1) |->
     IF k <= VerifyLimit
     THEN [accountId |-> ToString(k), currency |-> "JOD",
           balance |-> [current |-> 100, available |-> 100]]
     ELSE [accountId |-> "acc_9", currency |-> "USD",
           balance |-> [current |-> 20050, available |-> 20050]]]

\* the partner's answer to ?skip=..&limit=..: that window of the holding
PartnerPage(holding, skip, limit) ==
  [accounts |-> SubSeq(holding, skip + 1,
                       IF skip + limit < Len(holding) THEN skip + limit ELSE Len(holding)),
   hasMore |-> Len(holding) > skip + limit]

\* account lists answered to the accounts-list call of the FX resolver
VerifyLists ==
  {<<>>, <<acc_2>>, <<acc_1, acc_2>>, <<acc_2, acc_3>>, <<acc_3, acc_1>>, <<acc_noid, acc_2>>}

\* answers to the accounts-list call of the FX resolver (limit=50)
VerifyAnswers ==
  {HttpAnswer(200, [accounts |-> l, hasMore |-> FALSE]) : l \in VerifyLists}
  \cup {HttpAnswer(200, [accounts |-> <<acc_3>>]), HttpAnswer(200, EmptyDict)}
  \cup {HttpAnswer(200, PartnerPage(BigHolding, 0, VerifyLimit))}
  \cup {HttpAnswer(st, EmptyDict) : st \in ErrorStatuses} \cup {TransportFailure}

BalanceAnswers ==
  {HttpAnswer(200, b) : b \in BalanceBodies}
  \cup {HttpAnswer(s, EmptyDict) : s \in {500}} \cup {TransportFailure}

fx_usd == [sourceCurrency |-> "JOD", targetCurrency |-> "USD", conversionValue |-> 709]
fx_eur == [sourceCurrency |-> "JOD", targetCurrency |-> "EUR", conversionValue |-> 647]
fx_bare == [targetCurrency |-> "GBP"]

FxRateLists == {<<>>, <<fx_usd, fx_eur>>, <<fx_bare, fx_usd>>}

\* bodies of a 200 answer of the FX endpoints
FxBodies ==
  {[data |-> l] : l \in FxRateLists}
  \cup {[rates |-> <<fx_usd>>, lastUpdated |-> "t_fx"], EmptyDict}

FxAnswers ==
  {HttpAnswer(200, b) : b \in FxBodies}
  \cup {HttpAnswer(s, EmptyDict) : s \in {500}} \cup {TransportFailure}

TargetCurrencies == {"USD", "GBP"}
Amounts == {NoneNum, 0, 10000}

\* the customers on whose behalf the service is asked to aggregate
CustomerIds == {"customer_123", "IND_CUST_015"}

\* ------------------------------------------------------------- headers
JOPACC_CUSTOMER_ID == "customer_123"
JOPACC_AUTHORIZATION == "Bearer demo_token"
JOPACC_FINANCIAL_ID == "001"
JOPACC_JWS_SIGNATURE == ""
USER_AGENT == "StableCoin-Fintech-App/1.0"

\* get_headers: u1 is the first uuid4() drawn (interaction id), u2 the second
get_headers(u1, u2) ==
  [Authorization |-> JOPACC_AUTHORIZATION,
   x_financial_id |-> JOPACC_FINANCIAL_ID,
   x_customer_ip_address |-> "127.0.0.1",
   x_customer_user_agent |-> USER_AGENT,
   x_interactions_id |-> u1,
   x_idempotency_key |-> u2,
   x_jws_signature |-> JOPACC_JWS_SIGNATURE,
   x_auth_date |-> "now",
   x_customer_id |-> JOPACC_CUSTOMER_ID,
   Content_Type |-> "application/json",
   Accept |-> "application/json"]

\* get_accounts_new headers: the idempotency key is drawn first (u1)
AccountsHeaders(u1, u2) ==
  [x_jws_signature |-> JOPACC_JWS_SIGNATURE,
   x_auth_date |-> "now",
   x_idempotency_key |-> u1,
   Authorization |-> JOPACC_AUTHORIZATION,
   x_customer_user_agent |-> USER_AGENT,
   x_financial_id |-> JOPACC_FINANCIAL_ID,
   x_customer_ip_address |-> "127.0.0.1",
   x_interactions_id |-> u2,
   x_customer_id |-> JOPACC_CUSTOMER_ID]

\* variant: the balance call sends a key that is not drawn per call
BalanceHeaders_CachedKey(u1, u2) ==
  [x_customer_ip_address |-> "127.0.0.1",
   x_customer_user_agent |-> USER_AGENT,
   Authorization |-> JOPACC_AUTHORIZATION,
   x_financial_id |-> JOPACC_FINANCIAL_ID,
   x_auth_date |-> "now",
   x_idempotency_key |-> 0,
   x_jws_signature |-> JOPACC_JWS_SIGNATURE,
   x_interactions_id |-> u2]

\* variant: the balance call is built from the standard header set
BalanceHeaders_WithCustomerId(u1, u2) ==
  [x_customer_ip_address |-> "127.0.0.1",
   x_customer_user_agent |-> USER_AGENT,
   Authorization |-> JOPACC_AUTHORIZATION,
   x_financial_id |-> JOPACC_FINANCIAL_ID,
   x_auth_date |-> "now",
   x_idempotency_key |-> u1,
   x_jws_signature |-> JOPACC_JWS_SIGNATURE,
   x_interactions_id |-> u2,
   x_customer_id |-> JOPACC_CUSTOMER_ID]

\* get_account_balances headers: no x-customer-id
BalanceHeaders(u1, u2) ==
  [x_customer_ip_address |-> "127.0.0.1",
   x_customer_user_agent |-> USER_AGENT,
   Authorization |-> JOPACC_AUTHORIZATION,
   x_financial_id |-> JOPACC_FINANCIAL_ID,
   x_auth_date |-> "now",
   x_idempotency_key |-> u1,
   x_jws_signature |-> JOPACC_JWS_SIGNATURE,
   x_interactions_id |-> u2]

\* get_fx_quote headers
FxQuoteHeaders(u1, u2) ==
  [x_interactions_id |-> u1,
   Authorization |-> JOPACC_AUTHORIZATION,
   x_financial_id |-> JOPACC_FINANCIAL_ID,
   x_jws_signature |-> JOPACC_JWS_SIGNATURE,
   x_idempotency_key |-> u2]

\* ------------------------------------------------------------------ state
VARIABLES
  pc,                \* position of the running operation
  op,                \* the running operation and its arguments
  opsStarted,        \* number of operations started so far
  nextUuid,          \* uuid4() source: the next value never drawn before
  sentBefore,        \* interaction ids / idempotency keys sent by earlier operations
  calls,             \* outbound partner calls of the running operation, in order
  accounts_answer,   \* partner answer to the accounts-list call of this operation
  accounts_response, \* body returned by get_accounts_new in this operation
  accounts_ok,       \* TRUE once get_accounts_new returned in this operation
  idx,               \* loop position in accounts_response["accounts"]
  enriched_accounts, \* the list built by get_accounts_with_balances
  balance_log,       \* partner answers to the balance calls: <<index, answer>>
  account_exists,    \* FX resolver: the verification loop found the account
  account_currency,  \* FX resolver: local account_currency
  fx_log,            \* partner answers to the FX calls of this operation
  outcome,           \* "none" | "returned" | "raised"
  result,            \* the returned dict
  error,             \* the raised exception
  sandbox_mode,      \* self.sandbox_mode
  answer,            \* partner answer to the call of a single-call operation
  last_consent,      \* observer: id and Status of the last payment consent returned
  partner_keys,      \* partner: idempotency keys of the current request it has executed
  effects            \* partner: how many times it has executed the current request

\* the React state of the Dashboard component and its requests in flight
VARIABLES
  dashboardData,     \* Dashboard: useState(null)
  wallet,            \* Dashboard: useState(null)
  dash_loading,      \* Dashboard: loading, useState(true)
  dash_error,        \* Dashboard: error, useState(null)
  dash_fetches       \* Dashboard: the calls of fetchDashboardData, each with its two requests

dashVars == <<dashboardData, wallet, dash_loading, dash_error, dash_fetches>>

\* the React state of the OffersPage component and its requests in flight
VARIABLES
  offers,                  \* OffersPage: useState([]), with the request it came from
  offers_accounts,         \* OffersPage: accounts, useState([]), with their customer
  offers_selectedAccount,  \* OffersPage: selectedAccount, useState('')
  offers_loading,          \* OffersPage: loading, useState(true)
  offers_error,            \* OffersPage: error, useState(null)
  loadingOffers,           \* OffersPage: useState(false)
  offers_customerId,       \* OffersPage: customerId, useState('IND_CUST_015')
  offers_showCustomerForm, \* OffersPage: showCustomerForm, useState(false)
  offers_pending,          \* OffersPage: the api.get requests not yet answered
  offers_sent              \* OffersPage: number of requests sent so far

offersVars == <<offers, offers_accounts, offers_selectedAccount, offers_loading,
                offers_error, loadingOffers, offers_customerId, offers_showCustomerForm,
                offers_pending, offers_sent>>

\* the React state of the MicroLoansPage component, its requests in flight and
\* the loan applications it has posted
VARIABLES
  loans_accounts,          \* MicroLoansPage: accounts, useState([])
  loans_selectedAccount,   \* MicroLoansPage: selectedAccount, useState('')
  eligibilityData,         \* MicroLoansPage: useState(null)
  loans_loading,           \* MicroLoansPage: loading, useState(true)
  checkingEligibility,     \* MicroLoansPage: useState(false)
  applying,                \* MicroLoansPage: useState(false)
  loans_error,             \* MicroLoansPage: error, useState(null)
  success,                 \* MicroLoansPage: useState(null)
  loanAmount,              \* MicroLoansPage: useState('')
  selectedBank,            \* MicroLoansPage: useState('')
  showApplication,         \* MicroLoansPage: useState(false)
  loans_pending,           \* MicroLoansPage: the requests not yet answered
  loans_sent,              \* MicroLoansPage: number of requests sent so far
  posted                   \* backend: the bodies of the POST /loans/apply requests

loansVars == <<loans_accounts, loans_selectedAccount, eligibilityData, loans_loading,
               checkingEligibility, applying, loans_error, success, loanAmount,
               selectedBank, showApplication, loans_pending, loans_sent, posted>>

\* the state of the frontend pages
pageVars == <<dashVars, offersVars, loansVars>>

\* the state of JordanOpenFinanceService and of the partner
serviceVars == <<pc, op, opsStarted, nextUuid, sentBefore, calls, accounts_answer,
                 accounts_response, accounts_ok, idx, enriched_accounts, balance_log,
                 account_exists, account_currency, fx_log, outcome, result, error,
                 sandbox_mode, answer, last_consent, partner_keys, effects>>

vars == <<serviceVars, pageVars>>

\* ------------------------------------------------------ Dashboard component
\* how many times fetchDashboardData is called
MaxFetches == 3

\* the two api.get promises handed to Promise.all by one call of fetchDashboardData
NewFetch == [dashboard |-> "pending", wallet |-> "pending"]

\* Promise.all rejects with the first rejection and fulfils when both have fulfilled
AllRejected(f) == f.dashboard = "rejected" \/ f.wallet = "rejected"
AllFulfilled(f) == f.dashboard = "fulfilled" /\ f.wallet = "fulfilled"
AllSettled(f) == AllRejected(f) \/ AllFulfilled(f)

\* the component's state after its first render
DashboardInit ==
  /\ dashboardData = None
  /\ wallet = None
  /\ dash_loading = TRUE
  /\ dash_error = None
  /\ dash_fetches = <<>>

\* render: the spinner while loading, then the error screen, then the content
DashboardScreen ==
  IF dash_loading THEN "spinner"
  ELSE IF dash_error # None THEN "error"
  ELSE "content"

\* fetchDashboardData up to its await: both requests are sent, no state is set
fetchDashboardData ==
  /\ Len(dash_fetches) < MaxFetches
  /\ dash_fetches' = Append(dash_fetches, NewFetch)
  /\ UNCHANGED <<dashboardData, wallet, dash_loading, dash_error>>

\* useEffect(() => fetchDashboardData(), []): once, after the first render
DashboardMount ==
  /\ dash_fetches = <<>>
  /\ fetchDashboardData
  /\ UNCHANGED <<serviceVars, offersVars, loansVars>>

\* the Try Again button of the error screen: onClick={fetchDashboardData}
TryAgain ==
  /\ dash_fetches # <<>>
  /\ DashboardScreen = "error"
  /\ fetchDashboardData
  /\ UNCHANGED <<serviceVars, offersVars, loansVars>>

\* one request of call i settles; when that settles its Promise.all the rest of
\* fetchDashboardData runs: the try body or the catch, then the finally
DashboardRequestSettles ==
  \E i \in 1..Len(dash_fetches), req \in {"dashboard", "wallet"},
     how \in {"fulfilled", "rejected"} :
    /\ dash_fetches[i][req] = "pending"
    /\ LET before == dash_fetches[i]
           after == [before EXCEPT ![req] = how]
       IN /\ dash_fetches' = [dash_fetches EXCEPT ![i] = after]
          /\ IF AllSettled(before) \/ ~AllSettled(after)
             THEN UNCHANGED <<dashboardData, wallet, dash_loading, dash_error>>
             ELSE /\ IF AllFulfilled(after)
                     THEN /\ dashboardData' = "dashboardResponse.data"
                          /\ wallet' = "walletResponse.data"
                          /\ UNCHANGED dash_error
                     ELSE /\ dash_error' = "Failed to load dashboard data"
                          /\ UNCHANGED <<dashboardData, wallet>>
                  /\ dash_loading' = FALSE
    /\ UNCHANGED <<serviceVars, offersVars, loansVars>>

\* ------------------------------------------------------ OffersPage component
\* how many requests the page sends
MaxRequests == 4

\* the customer ids typed into the form, and the accounts the backend lists for each
PageCustomerIds == {"IND_CUST_015", "IND_CUST_016", "TEST_CUST_123"}
CustomerAccounts(c) ==
  CASE c = "IND_CUST_015" -> <<"acc_15a", "acc_15b">>
    [] c = "IND_CUST_016" -> <<"acc_16a">>
    [] OTHER -> <<>>

Range(s) == {s[i] : i \in 1..Len(s)}
RemoveAt(s, k) == [i \in 1..(Len(s) - 1) |-> IF i < k THEN s[i] ELSE s[i + 1]]

\* the accounts and offers held in state, each with the request it answers
NoAccounts == [customer |-> None, ids |-> <<>>]
NoOffers == [customer |-> None, account |-> None]
AccountsRequest(c) == [kind |-> "accounts", customer |-> c, account |-> None]
OffersRequest(c, a) == [kind |-> "offers", customer |-> c, account |-> a]

\* the component's state after its first render
OffersInit ==
  /\ offers = NoOffers
  /\ offers_accounts = NoAccounts
  /\ offers_selectedAccount = ""
  /\ offers_loading = TRUE
  /\ offers_error = None
  /\ loadingOffers = FALSE
  /\ offers_customerId = "IND_CUST_015"
  /\ offers_showCustomerForm = FALSE
  /\ offers_pending = <<>>
  /\ offers_sent = 0

\* requests sent so far and those an answered accounts request will still send
OffersBudget ==
  offers_sent + Cardinality({k \in 1..Len(offers_pending) : offers_pending[k].kind = "accounts"})

\* fetchAccounts up to its await, with the customerId of the render it belongs to
OffersFetchAccounts(c) ==
  /\ OffersBudget + 2 <= MaxRequests
  /\ offers_loading' = TRUE
  /\ offers_pending' = Append(offers_pending, AccountsRequest(c))
  /\ offers_sent' = offers_sent + 1

\* useEffect(() => fetchAccounts(), [customerId]) after the first render
OffersMount ==
  /\ offers_sent = 0
  /\ OffersFetchAccounts(offers_customerId)
  /\ UNCHANGED <<offers, offers_accounts, offers_selectedAccount, offers_error,
                 loadingOffers, offers_customerId, offers_showCustomerForm>>
  /\ UNCHANGED <<serviceVars, dashVars, loansVars>>

\* the Change Customer ID / Cancel button, rendered when the page is not loading
ToggleCustomerForm ==
  /\ offers_sent > 0
  /\ ~offers_loading
  /\ offers_showCustomerForm' = ~offers_showCustomerForm
  /\ UNCHANGED <<offers, offers_accounts, offers_selectedAccount, offers_loading,
                 offers_error, loadingOffers, offers_customerId, offers_pending,
                 offers_sent>>
  /\ UNCHANGED <<serviceVars, dashVars, loansVars>>

\* the input's onChange: setCustomerId, then the effect on [customerId] fetches
TypeCustomerId ==
  \E c \in PageCustomerIds :
    /\ ~offers_loading
    /\ offers_showCustomerForm
    /\ c # offers_customerId
    /\ offers_customerId' = c
    /\ OffersFetchAccounts(c)
    /\ UNCHANGED <<offers, offers_accounts, offers_selectedAccount, offers_error,
                   loadingOffers, offers_showCustomerForm>>
    /\ UNCHANGED <<serviceVars, dashVars, loansVars>>

\* handleCustomerIdChange: the form's onSubmit
OffersHandleCustomerIdChange ==
  /\ ~offers_loading
  /\ offers_showCustomerForm
  /\ offers_showCustomerForm' = FALSE
  /\ offers_selectedAccount' = ""
  /\ offers' = NoOffers
  /\ OffersFetchAccounts(offers_customerId)
  /\ UNCHANGED <<offers_accounts, offers_error, loadingOffers, offers_customerId>>
  /\ UNCHANGED <<serviceVars, dashVars, loansVars>>

\* handleAccountChange: the account select's onChange; fetchOffers returns at once
\* for the empty choice and otherwise runs up to its await
OffersHandleAccountChange ==
  \E a \in Range(offers_accounts.ids) \cup {""} :
    /\ ~offers_loading
    /\ offers_accounts.ids # <<>>
    /\ offers_selectedAccount' = a
    /\ IF a = ""
       THEN UNCHANGED <<loadingOffers, offers_error, offers_pending, offers_sent>>
       ELSE /\ OffersBudget + 1 <= MaxRequests
            /\ loadingOffers' = TRUE
            /\ offers_error' = None
            /\ offers_pending' = Append(offers_pending, OffersRequest(offers_customerId, a))
            /\ offers_sent' = offers_sent + 1
    /\ UNCHANGED <<offers, offers_accounts, offers_loading, offers_customerId,
                   offers_showCustomerForm>>
    /\ UNCHANGED <<serviceVars, dashVars, loansVars>>

\* the accounts request answers: the rest of fetchAccounts, with fetchOffers for
\* the first account run up to its await, then the finally
OffersAccountsResponse ==
  \E k \in 1..Len(offers_pending), ok \in BOOLEAN :
    LET req == offers_pending[k]
        ids == CustomerAccounts(req.customer)
        rest == RemoveAt(offers_pending, k)
    IN /\ req.kind = "accounts"
       /\ IF ok
          THEN /\ offers_accounts' = [customer |-> req.customer, ids |-> ids]
               /\ IF ids # <<>>
                  THEN /\ offers_selectedAccount' = ids[1]
                       /\ loadingOffers' = TRUE
                       /\ offers_error' = None
                       /\ offers_pending' = Append(rest, OffersRequest(req.customer, ids[1]))
                       /\ offers_sent' = offers_sent + 1
                  ELSE /\ offers_pending' = rest
                       /\ UNCHANGED <<offers_selectedAccount, loadingOffers, offers_error,
                                      offers_sent>>
          ELSE /\ offers_error' = "Failed to fetch accounts"
               /\ offers_pending' = rest
               /\ UNCHANGED <<offers_accounts, offers_selectedAccount, loadingOffers,
                              offers_sent>>
       /\ offers_loading' = FALSE
       /\ UNCHANGED <<offers, offers_customerId, offers_showCustomerForm>>
       /\ UNCHANGED <<serviceVars, dashVars, loansVars>>

\* the offers request answers: the rest of fetchOffers
OffersOffersResponse ==
  \E k \in 1..Len(offers_pending), ok \in BOOLEAN :
    LET req == offers_pending[k]
    IN /\ req.kind = "offers"
       /\ IF ok
          THEN /\ offers' = [customer |-> req.customer, account |-> req.account]
               /\ UNCHANGED offers_error
          ELSE /\ offers_error' = "Failed to fetch offers"
               /\ UNCHANGED offers
       /\ loadingOffers' = FALSE
       /\ offers_pending' = RemoveAt(offers_pending, k)
       /\ UNCHANGED <<offers_accounts, offers_selectedAccount, offers_loading,
                      offers_customerId, offers_showCustomerForm, offers_sent>>
       /\ UNCHANGED <<serviceVars, dashVars, loansVars>>

\* ---------------------------------------------------- MicroLoansPage component
\* how many requests the page sends
MaxLoanRequests == 4

\* GET /loans/eligibility/{account}: the backend's answer for each account
MaxLoanAmount(a) ==
  CASE a = "acc_15a" -> 500
    [] a = "acc_15b" -> 100
    [] OTHER -> 0
Eligibility(a) ==
  [account |-> a, max_loan_amount |-> MaxLoanAmount(a),
   eligible_for_loan |-> MaxLoanAmount(a) > 0]

\* what the user types into the amount field, and parseFloat of it
LoanInputs == {"", "0", "50", "300"}
parseFloat(s) ==
  CASE s = "0" -> 0
    [] s = "50" -> 50
    [] s = "300" -> 300
    [] OTHER -> NoneNum  \* '' only, which applyForLoan rejects before parsing
Banks == {"", "Jordan Bank"}

\* eligibilityData null
NoEligibility == [account |-> None, max_loan_amount |-> 0, eligible_for_loan |-> FALSE]

LoanAccountsRequest(c) == [kind |-> "accounts", customer |-> c, account |-> None]
EligibilityRequest(a) == [kind |-> "eligibility", customer |-> None, account |-> a]
ApplyRequest == [kind |-> "apply", customer |-> None, account |-> None]

\* the component's state after its first render; customerId stays 'IND_CUST_015'
LoansCustomerId == "IND_CUST_015"
LoansInit ==
  /\ loans_accounts = <<>>
  /\ loans_selectedAccount = ""
  /\ eligibilityData = NoEligibility
  /\ loans_loading = TRUE
  /\ checkingEligibility = FALSE
  /\ applying = FALSE
  /\ loans_error = None
  /\ success = None
  /\ loanAmount = ""
  /\ selectedBank = ""
  /\ showApplication = FALSE
  /\ loans_pending = <<>>
  /\ loans_sent = 0
  /\ posted = <<>>

\* a request is sent
LoansSend(req) ==
  /\ loans_sent < MaxLoanRequests
  /\ loans_pending' = Append(loans_pending, req)
  /\ loans_sent' = loans_sent + 1

\* useEffect(() => fetchAccounts(), [customerId]) after the first render:
\* fetchAccounts up to its await
LoansMount ==
  /\ loans_sent = 0
  /\ loans_loading' = TRUE
  /\ LoansSend(LoanAccountsRequest(LoansCustomerId))
  /\ UNCHANGED <<loans_accounts, loans_selectedAccount, eligibilityData,
                 checkingEligibility, applying, loans_error, success, loanAmount,
                 selectedBank, showApplication, posted>>
  /\ UNCHANGED <<serviceVars, dashVars, offersVars>>

\* the accounts request answers: the rest of fetchAccounts
LoansAccountsResponse ==
  \E k \in 1..Len(loans_pending), ok \in BOOLEAN :
    LET req == loans_pending[k]
    IN /\ req.kind = "accounts"
       /\ IF ok
          THEN /\ loans_accounts' = CustomerAccounts(req.customer)
               /\ UNCHANGED loans_error
          ELSE /\ loans_error' = "Failed to fetch accounts"
               /\ UNCHANGED loans_accounts
       /\ loans_loading' = FALSE
       /\ loans_pending' = RemoveAt(loans_pending, k)
       /\ UNCHANGED <<loans_selectedAccount, eligibilityData, checkingEligibility,
                      applying, success, loanAmount, selectedBank, showApplication,
                      loans_sent, posted>>
       /\ UNCHANGED <<serviceVars, dashVars, offersVars>>

\* handleAccountChange: the account select's onChange, with checkEligibility run
\* up to its await when an account is chosen
LoansHandleAccountChange ==
  \E a \in Range(loans_accounts) \cup {""} :
    /\ ~loans_loading
    /\ loans_accounts # <<>>
    /\ loans_selectedAccount' = a
    /\ eligibilityData' = NoEligibility
    /\ showApplication' = FALSE
    /\ loanAmount' = ""
    /\ selectedBank' = ""
    /\ IF a = ""
       THEN UNCHANGED <<checkingEligibility, loans_error, success, loans_pending,
                        loans_sent>>
       ELSE /\ checkingEligibility' = TRUE
            /\ loans_error' = None
            /\ success' = None
            /\ LoansSend(EligibilityRequest(a))
    /\ UNCHANGED <<loans_accounts, loans_loading, applying, posted>>
    /\ UNCHANGED <<serviceVars, dashVars, offersVars>>

\* the eligibility request answers: the rest of checkEligibility
EligibilityResponse ==
  \E k \in 1..Len(loans_pending), ok \in BOOLEAN :
    LET req == loans_pending[k]
        data == Eligibility(req.account)
    IN /\ req.kind = "eligibility"
       /\ IF ok
          THEN /\ eligibilityData' = data
               /\ showApplication' = data.eligible_for_loan
               /\ UNCHANGED loans_error
          ELSE /\ loans_error' = "Failed to check loan eligibility"
               /\ UNCHANGED <<eligibilityData, showApplication>>
       /\ checkingEligibility' = FALSE
       /\ loans_pending' = RemoveAt(loans_pending, k)
       /\ UNCHANGED <<loans_accounts, loans_selectedAccount, loans_loading, applying,
                      success, loanAmount, selectedBank, loans_sent, posted>>
       /\ UNCHANGED <<serviceVars, dashVars, offersVars>>

\* the application form is rendered
ApplicationFormShown == ~loans_loading /\ showApplication /\ eligibilityData # NoEligibility

\* the amount field's onChange and the bank select's onChange
SetLoanAmount ==
  \E s \in LoanInputs :
    /\ ApplicationFormShown
    /\ loanAmount' = s
    /\ UNCHANGED <<loans_accounts, loans_selectedAccount, eligibilityData, loans_loading,
                   checkingEligibility, applying, loans_error, success, selectedBank,
                   showApplication, loans_pending, loans_sent, posted>>
    /\ UNCHANGED <<serviceVars, dashVars, offersVars>>

SetSelectedBank ==
  \E b \in Banks :
    /\ ApplicationFormShown
    /\ selectedBank' = b
    /\ UNCHANGED <<loans_accounts, loans_selectedAccount, eligibilityData, loans_loading,
                   checkingEligibility, applying, loans_error, success, loanAmount,
                   showApplication, loans_pending, loans_sent, posted>>
    /\ UNCHANGED <<serviceVars, dashVars, offersVars>>

\* applyForLoan up to its await: the form's onSubmit, its button disabled while applying
applyForLoan ==
  /\ ApplicationFormShown
  /\ ~applying
  /\ IF loans_selectedAccount = "" \/ loanAmount = "" \/ selectedBank = ""
     THEN /\ loans_error' = "Please fill in all required fields"
          /\ UNCHANGED <<applying, loans_pending, loans_sent, posted>>
     ELSE LET amount == parseFloat(loanAmount)
          IN IF amount <= 0 \/ amount > eligibilityData.max_loan_amount
             THEN /\ loans_error' = "Loan amount must be between 1 and max_loan_amount JOD"
                  /\ UNCHANGED <<applying, loans_pending, loans_sent, posted>>
             ELSE /\ applying' = TRUE
                  /\ loans_error' = None
                  /\ LoansSend(ApplyRequest)
                  /\ posted' = Append(posted, [account_id |-> loans_selectedAccount,
                                               loan_amount |-> amount,
                                               selected_bank |-> selectedBank,
                                               customer_id |-> LoansCustomerId])
  /\ UNCHANGED <<loans_accounts, loans_selectedAccount, eligibilityData, loans_loading,
                 checkingEligibility, success, loanAmount, selectedBank, showApplication>>
  /\ UNCHANGED <<serviceVars, dashVars, offersVars>>

\* the apply request answers: the rest of applyForLoan
ApplyResponse ==
  \E k \in 1..Len(loans_pending), ok \in BOOLEAN :
    /\ loans_pending[k].kind = "apply"
    /\ IF ok
       THEN /\ success' = "Loan application submitted successfully!"
            /\ showApplication' = FALSE
            /\ loanAmount' = ""
            /\ selectedBank' = ""
            /\ UNCHANGED loans_error
       ELSE /\ loans_error' = "Failed to apply for loan"
            /\ UNCHANGED <<success, showApplication, loanAmount, selectedBank>>
    /\ applying' = FALSE
    /\ loans_pending' = RemoveAt(loans_pending, k)
    /\ UNCHANGED <<loans_accounts, loans_selectedAccount, eligibilityData, loans_loading,
                   checkingEligibility, loans_sent, posted>>
    /\ UNCHANGED <<serviceVars, dashVars, offersVars>>

\* the state of the consent, payment and transfer operations
paymentVars == <<sandbox_mode, answer, last_consent, partner_keys, effects>>

NoExc == [type |-> "none", status |-> 0, text |-> ""]
NoOp == [name |-> "none", account_id |-> None, target_currency |-> None,
         amount |-> NoneNum, skip |-> 0, limit |-> 0, consent_id |-> None,
         retry |-> FALSE, customer_id |-> None]
NoConsent == [id |-> None, status |-> None]

\* ids carried by a sequence of calls
IdsOf(cs) ==
  UNION {{cs[i].headers.x_interactions_id, cs[i].headers.x_idempotency_key} : i \in DOMAIN cs}

Call(kind, headers, account_id, limit) ==
  [kind |-> kind, headers |-> headers, account_id |-> account_id, limit |-> limit,
   json |-> EmptyDict]

\* a call that carries a JSON body
PostCall(kind, headers, json) ==
  [kind |-> kind, headers |-> headers, account_id |-> None, limit |-> 0, json |-> json]

\* ------------------------------------------------- single partner calls
\* variant: a bad status yields an empty account list
get_accounts_new_EmptyOnError(ans) ==
  IF ans.transport
  THEN [ok |-> FALSE, value |-> EmptyDict,
        exc |-> [type |-> "TransportError", status |-> 0, text |-> ans.text]]
  ELSE IF ans.status = 200
  THEN [ok |-> TRUE, value |-> ans.body, exc |-> NoExc]
  ELSE [ok |-> TRUE, value |-> [accounts |-> <<>>], exc |-> NoExc]

\* get_accounts_new: body on status 200, otherwise an exception
get_accounts_new(ans) ==
  IF ans.transport
  THEN [ok |-> FALSE, value |-> EmptyDict,
        exc |-> [type |-> "TransportError", status |-> 0, text |-> ans.text]]
  ELSE IF ans.status = 200
  THEN [ok |-> TRUE, value |-> ans.body, exc |-> NoExc]
  ELSE [ok |-> FALSE, value |-> EmptyDict,
        exc |-> [type |-> "Exception", status |-> ans.status, text |-> ans.text]]

\* get_account_balances: body on status 200, otherwise an exception
get_account_balances(ans) ==
  IF ans.transport
  THEN [ok |-> FALSE, value |-> EmptyDict,
        exc |-> [type |-> "TransportError", status |-> 0, text |-> ans.text]]
  ELSE IF ans.status = 200
  THEN [ok |-> TRUE, value |-> ans.body, exc |-> NoExc]
  ELSE [ok |-> FALSE, value |-> EmptyDict,
        exc |-> [type |-> "Exception", status |-> ans.status, text |-> ans.text]]

\* variant: the handler catches only the exception raised for a bad status
BalanceExceptCatches_StatusOnly(exc) == exc.type = "Exception"

\* `except Exception as e` of the aggregation loop: which exceptions it catches
BalanceExceptCatches(exc) == exc.type \in {"Exception", "TransportError", "ValueError"}

\* `if account_id:`
Truthy(v) == v # None /\ v # ""

\* variant: the enrichment also refreshes balance.current from the first balance line
EnrichAccount_OverwritesBalance(account, balance_response) ==
  LET lines == Get(balance_response, "balances", <<>>)
      merged == Merge2(account,
                  "detailed_balances", lines,
                  "balance_last_updated",
                     Get(balance_response, "lastUpdated", Get(account, "lastUpdated", None)))
  IN IF Len(lines) > 0
     THEN [merged EXCEPT !["balance"] = [current |-> lines[1].amount,
                                         available |-> account.balance.available]]
     ELSE merged

\* the account dict appended after a successful balance call
EnrichAccount(account, balance_response) ==
  Merge2(account,
         "detailed_balances", Get(balance_response, "balances", <<>>),
         "balance_last_updated",
            Get(balance_response, "lastUpdated", Get(account, "lastUpdated", None)))

\* the account dict appended when the balance call raised
UnenrichedAccount(account) == account

\* variant: the balance call is made for a fixed id
BalanceTarget_Fixed(account) == "acc_9"

\* the id the balance call is made for
BalanceTarget(account) == Get(account, "accountId", None)

\* variant: the new dict is put in front of the list
AppendResult_Prepend(enriched, appended) == <<appended>> \o enriched

\* enriched_accounts.append(...): the dict goes to the end of the list
AppendResult(enriched, appended) == Append(enriched, appended)

\* asyncio.CancelledError, raised at the pending await when the caller's
\* timeout cancels the coroutine; it derives from BaseException
CancelledError == [type |-> "CancelledError", status |-> 0, text |-> ""]

\* the loop body for accounts without a usable id runs without awaiting:
\* from position i, append such accounts until an account needs a balance call
RECURSIVE AdvanceLoop(_, _, _)
AdvanceLoop(accs, i, enriched) ==
  IF i > Len(accs) THEN [idx |-> i, enriched |-> enriched]
  ELSE IF Truthy(BalanceTarget(accs[i])) THEN [idx |-> i, enriched |-> enriched]
  ELSE AdvanceLoop(accs, i + 1, AppendResult(enriched, accs[i]))

\* variant: a response without hasMore is reported as having more
AggregationResult_HasMoreByDefault(enriched, response) ==
  [accounts |-> enriched,
   totalCount |-> Len(enriched),
   hasMore |-> Get(response, "hasMore", TRUE)]

\* the dict returned by get_accounts_with_balances
AggregationResult(enriched, response) ==
  [accounts |-> enriched,
   totalCount |-> Len(enriched),
   hasMore |-> Get(response, "hasMore", FALSE)]

\* ------------------------------------------------------------------ Init
\* variant: the service is constructed with the sandbox switch on
InitialSandboxMode_Enabled == TRUE

\* __init__: self.sandbox_mode = False
InitialSandboxMode == FALSE

Init ==
  /\ pc = "idle"
  /\ op = NoOp
  /\ opsStarted = 0
  /\ nextUuid = 1
  /\ sentBefore = {}
  /\ calls = <<>>
  /\ accounts_answer = NoAnswer
  /\ accounts_response = EmptyDict
  /\ accounts_ok = FALSE
  /\ idx = 0
  /\ enriched_accounts = <<>>
  /\ balance_log = <<>>
  /\ account_exists = FALSE
  /\ account_currency = "JOD"
  /\ fx_log = <<>>
  /\ outcome = "none"
  /\ result = EmptyDict
  /\ error = NoExc
  /\ sandbox_mode = InitialSandboxMode
  /\ answer = NoAnswer
  /\ last_consent = NoConsent
  /\ partner_keys = {}
  /\ effects = 0
  /\ DashboardInit
  /\ OffersInit
  /\ LoansInit

\* a method is invoked: the locals of the previous invocation are forgotten
Invoke(o) ==
  /\ pc \in {"idle", "done"}
  /\ opsStarted < MaxOps
  /\ op' = o
  /\ opsStarted' = opsStarted + 1
  /\ sentBefore' = sentBefore \cup IdsOf(calls)
  /\ calls' = <<>>
  /\ accounts_answer' = NoAnswer
  /\ accounts_response' = EmptyDict
  /\ accounts_ok' = FALSE
  /\ idx' = 0
  /\ enriched_accounts' = <<>>
  /\ balance_log' = <<>>
  /\ account_exists' = FALSE
  /\ account_currency' = "JOD"
  /\ fx_log' = <<>>
  /\ answer' = NoAnswer
  /\ UNCHANGED <<sandbox_mode, pageVars>>

\* a new operation starts and runs to its first await
Begin(o, firstPc) ==
  /\ Invoke(o)
  /\ pc' = firstPc
  /\ outcome' = "none"
  /\ result' = EmptyDict
  /\ error' = NoExc
  /\ partner_keys' = {}
  /\ effects' = 0
  /\ UNCHANGED <<nextUuid, last_consent>>

Return(value) ==
  /\ pc' = "done"
  /\ outcome' = "returned"
  /\ result' = value
  /\ error' = NoExc

Raise(exc) ==
  /\ pc' = "done"
  /\ outcome' = "raised"
  /\ result' = EmptyDict
  /\ error' = exc

\* ----------------------------------------- get_accounts_with_balances
StartAggregation ==
  \E skip \in {0}, limit \in {DefaultLimit}, customer_id \in CustomerIds :
    Begin([NoOp EXCEPT !.name = "get_accounts_with_balances",
                       !.customer_id = customer_id,
                       !.skip = skip, !.limit = limit], "agg_accounts")

\* line 604: await self.get_accounts_new(skip, limit); then the loop up to
\* its first balance call, or to the return when no account needs one
AggAccountsCall ==
  /\ pc = "agg_accounts"
  /\ \E ans \in AccountsAnswers :
       LET r == get_accounts_new(ans)
           adv == AdvanceLoop(Get(r.value, "accounts", <<>>), 1, <<>>)
       IN /\ calls' = Append(calls, Call("AccountsList",
                                AccountsHeaders(nextUuid, nextUuid + 1), None, op.limit))
          /\ nextUuid' = nextUuid + 2
          /\ accounts_answer' = ans
          /\ IF r.ok
             THEN /\ accounts_response' = r.value
                  /\ accounts_ok' = TRUE
                  /\ idx' = adv.idx
                  /\ enriched_accounts' = adv.enriched
                  /\ IF adv.idx > Len(Get(r.value, "accounts", <<>>))
                     THEN Return(AggregationResult(adv.enriched, r.value))
                     ELSE /\ pc' = "agg_balance"
                          /\ UNCHANGED <<outcome, result, error>>
             ELSE /\ Raise(r.exc)
                  /\ UNCHANGED <<accounts_response, accounts_ok, idx, enriched_accounts>>
  /\ UNCHANGED paymentVars
  /\ UNCHANGED <<pageVars, op, opsStarted, sentBefore, balance_log, account_exists,
                 account_currency, fx_log>>

\* line 613: await self.get_account_balances(account_id) for accounts[idx],
\* the try/except around it, and the loop up to the next await or the return
AggBalanceCall ==
  /\ pc = "agg_balance"
  /\ \E ans \in BalanceAnswers :
       LET accs == Get(accounts_response, "accounts", <<>>)
           account == accs[idx]
           r == get_account_balances(ans)
           appended == IF r.ok THEN EnrichAccount(account, r.value)
                       ELSE UnenrichedAccount(account)
           adv == AdvanceLoop(accs, idx + 1, AppendResult(enriched_accounts, appended))
       IN /\ calls' = Append(calls, Call("Balances",
                                BalanceHeaders(nextUuid, nextUuid + 1),
                                BalanceTarget(account), 0))
          /\ nextUuid' = nextUuid + 2
          /\ balance_log' = Append(balance_log, [idx |-> idx, answer |-> ans])
          /\ IF r.ok \/ BalanceExceptCatches(r.exc)
             THEN /\ idx' = adv.idx
                  /\ enriched_accounts' = adv.enriched
                  /\ IF adv.idx > Len(accs)
                     THEN Return(AggregationResult(adv.enriched, accounts_response))
                     ELSE /\ pc' = "agg_balance"
                          /\ UNCHANGED <<outcome, result, error>>
             ELSE /\ Raise(r.exc)
                  /\ UNCHANGED <<idx, enriched_accounts>>
  /\ UNCHANGED paymentVars
  /\ UNCHANGED <<pageVars, op, opsStarted, sentBefore, accounts_answer, accounts_response,
                 accounts_ok, account_exists, account_currency, fx_log>>

\* the caller's timeout fires while the aggregation awaits a partner call:
\* the request is in flight, no answer is read, CancelledError is raised at
\* the await (line 604, outside any handler, or line 613, inside the try)
CancelAggregation ==
  /\ pc \in {"agg_accounts", "agg_balance"}
  /\ nextUuid' = nextUuid + 2
  /\ IF pc = "agg_accounts"
     THEN /\ calls' = Append(calls, Call("AccountsList",
                                AccountsHeaders(nextUuid, nextUuid + 1), None, op.limit))
          /\ Raise(CancelledError)
          /\ UNCHANGED <<idx, enriched_accounts>>
     ELSE LET accs == Get(accounts_response, "accounts", <<>>)
              account == accs[idx]
              adv == AdvanceLoop(accs, idx + 1,
                                 AppendResult(enriched_accounts, UnenrichedAccount(account)))
          IN /\ calls' = Append(calls, Call("Balances",
                                   BalanceHeaders(nextUuid, nextUuid + 1),
                                   BalanceTarget(account), 0))
             /\ IF BalanceExceptCatches(CancelledError)
                THEN /\ idx' = adv.idx
                     /\ enriched_accounts' = adv.enriched
                     /\ IF adv.idx > Len(accs)
                        THEN Return(AggregationResult(adv.enriched, accounts_response))
                        ELSE /\ pc' = "agg_balance"
                             /\ UNCHANGED <<outcome, result, error>>
                ELSE /\ Raise(CancelledError)
                     /\ UNCHANGED <<idx, enriched_accounts>>
  /\ UNCHANGED paymentVars
  /\ UNCHANGED <<pageVars, op, opsStarted, sentBefore, accounts_answer, accounts_response,
                 accounts_ok, balance_log, account_exists, account_currency, fx_log>>

\* -------------------------------------------------------- FX resolver
\* get_fx_rates: body on status 200, otherwise an exception
get_fx_rates(ans) ==
  IF ans.transport
  THEN [ok |-> FALSE, value |-> EmptyDict,
        exc |-> [type |-> "TransportError", status |-> 0, text |-> ans.text]]
  ELSE IF ans.status = 200
  THEN [ok |-> TRUE, value |-> ans.body, exc |-> NoExc]
  ELSE [ok |-> FALSE, value |-> EmptyDict,
        exc |-> [type |-> "Exception", status |-> ans.status, text |-> ans.text]]

\* `amount * rate if amount else None`
ConvertedAmount(amount, rate) ==
  IF amount # NoneNum /\ amount # 0 THEN amount * rate ELSE NoneNum

\* first position of data whose targetCurrency is target_currency, 0 if none
RECURSIVE FirstMatch(_, _, _)
FirstMatch(data, target_currency, i) ==
  IF i > Len(data) THEN 0
  ELSE IF Get(data[i], "targetCurrency", None) = target_currency THEN i
  ELSE FirstMatch(data, target_currency, i + 1)

\* the quote dict built from one rate entry; reported is its targetCurrency value
QuoteDict(fx_rate, reported, amount, quoteId) ==
  [quoteId |-> quoteId,
   baseCurrency |-> Get(fx_rate, "sourceCurrency", "JOD"),
   targetCurrency |-> reported,
   rate |-> Get(fx_rate, "conversionValue", DefaultRate),
   amount |-> amount,
   convertedAmount |-> ConvertedAmount(amount, Get(fx_rate, "conversionValue", DefaultRate)),
   validUntil |-> "now+5m",
   timestamp |-> "now"]

\* get_fx_quote after the HTTP exchange: a quote dict or an exception
get_fx_quote(ans, target_currency, amount, quoteId) ==
  IF ans.transport
  THEN [ok |-> FALSE, value |-> EmptyDict,
        exc |-> [type |-> "TransportError", status |-> 0, text |-> ans.text]]
  ELSE IF ans.status = 200
  THEN LET data == Get(ans.body, "data", <<>>)
           m == FirstMatch(data, target_currency, 1)
       IN IF Len(data) = 0
          THEN [ok |-> FALSE, value |-> EmptyDict,
                exc |-> [type |-> "Exception", status |-> 200,
                         text |-> "JoPACC FX API returned no data"]]
          ELSE IF m > 0
          THEN [ok |-> TRUE, exc |-> NoExc,
                value |-> QuoteDict(data[m], target_currency, amount, quoteId)]
          ELSE [ok |-> TRUE, exc |-> NoExc,
                value |-> QuoteDict(data[1],
                                    Get(data[1], "targetCurrency", target_currency),
                                    amount, quoteId)]
  ELSE [ok |-> FALSE, value |-> EmptyDict,
        exc |-> [type |-> "Exception", status |-> ans.status, text |-> ans.text]]

\* variant: the verification loop accepts the first account of the list
FindAccount_FirstOfList(accs, account_id, i) ==
  IF Len(accs) > 0 THEN 1 ELSE 0

\* the verification loop: first position whose accountId equals account_id
RECURSIVE FindAccount(_, _, _)
FindAccount(accs, account_id, i) ==
  IF i > Len(accs) THEN 0
  ELSE IF Get(accs[i], "accountId", None) = account_id THEN i
  ELSE FindAccount(accs, account_id, i + 1)

\* variant: the handler catches the errors of the HTTP calls only
VerifyExceptCatches_HttpOnly(exc) == exc.type \in {"Exception", "TransportError"}

\* `except Exception as e` of the FX resolver: which exceptions it catches
VerifyExceptCatches(exc) == exc.type \in {"Exception", "TransportError", "ValueError"}

NotFound(account_id) == [type |-> "ValueError", status |-> 0, text |-> account_id]

\* dict returned by get_fx_rates_for_account when the try block completes
RatesResult(account_id, currency, fx_response) ==
  [account_id |-> account_id,
   account_currency |-> currency,
   fx_data |-> fx_response,
   rates_for_account |-> Get(fx_response, "rates", <<>>),
   last_updated |-> Get(fx_response, "lastUpdated", "nowZ")]

\* dict returned by the except block of get_fx_rates_for_account
RatesFallbackResult(account_id, fx_response) ==
  [account_id |-> account_id,
   account_currency |-> "JOD",
   fx_data |-> fx_response,
   rates_for_account |-> Get(fx_response, "rates", <<>>),
   last_updated |-> Get(fx_response, "lastUpdated", "nowZ"),
   warning |-> "Account verification failed, using default FX rates"]

\* dict returned by get_fx_quote_for_account when the try block completes
QuoteResult(account_id, currency, target_currency, amount, q) ==
  [account_id |-> account_id,
   account_currency |-> currency,
   quote_data |-> q,
   base_currency |-> Get(q, "baseCurrency", currency),
   target_currency |-> target_currency,
   rate |-> Get(q, "rate", DefaultRate),
   amount |-> amount,
   converted_amount |-> Get(q, "convertedAmount", NoneNum),
   quote_id |-> Get(q, "quoteId", NoneNum),
   valid_until |-> Get(q, "validUntil", None),
   timestamp |-> Get(q, "timestamp", None)]

\* variant: the except block reports the quote's target currency as account currency
QuoteFallbackResult_QuoteCurrency(account_id, q) ==
  LET head == [account_id |-> account_id,
               account_currency |-> Get(q, "targetCurrency", "JOD"),
               quote_data |-> q]
      keys == DOMAIN head \cup DOMAIN q \cup {"warning"}
  IN [k \in keys |->
        IF k = "warning" THEN "Account verification failed, using default FX quote"
        ELSE IF k \in DOMAIN q THEN q[k]
        ELSE head[k]]

\* dict returned by the except block of get_fx_quote_for_account:
\* {"account_id", "account_currency": "JOD", "quote_data", **quote_response, "warning"}
QuoteFallbackResult(account_id, q) ==
  LET head == [account_id |-> account_id, account_currency |-> "JOD", quote_data |-> q]
      keys == DOMAIN head \cup DOMAIN q \cup {"warning"}
  IN [k \in keys |->
        IF k = "warning" THEN "Account verification failed, using default FX quote"
        ELSE IF k \in DOMAIN q THEN q[k]
        ELSE head[k]]

StartRates ==
  \E account_id \in AccountIds :
    Begin([NoOp EXCEPT !.name = "get_fx_rates_for_account",
                       !.account_id = account_id, !.limit = VerifyLimit], "fx_verify")

StartQuote ==
  \E account_id \in AccountIds, target_currency \in TargetCurrencies, amount \in Amounts :
    Begin([NoOp EXCEPT !.name = "get_fx_quote_for_account",
                       !.account_id = account_id, !.target_currency = target_currency,
                       !.amount = amount, !.limit = VerifyLimit], "fx_verify")

\* lines 639-650 / 682-693: await self.get_accounts_new(limit=50), the search
\* loop and the raise of ValueError; a caught exception enters the except block
FxVerifyCall ==
  /\ pc = "fx_verify"
  /\ \E ans \in VerifyAnswers :
       LET r == get_accounts_new(ans)
           accs == Get(r.value, "accounts", <<>>)
           m == FindAccount(accs, op.account_id, 1)
           exc == IF r.ok THEN NotFound(op.account_id) ELSE r.exc
       IN /\ calls' = Append(calls, Call("AccountsList",
                                AccountsHeaders(nextUuid, nextUuid + 1), None, VerifyLimit))
          /\ nextUuid' = nextUuid + 2
          /\ accounts_answer' = ans
          /\ accounts_ok' = r.ok
          /\ accounts_response' = r.value
          /\ IF r.ok /\ m > 0
             THEN /\ account_exists' = TRUE
                  /\ account_currency' = Get(accs[m], "currency", "JOD")
                  /\ pc' = "fx_call"
                  /\ UNCHANGED <<outcome, result, error>>
             ELSE /\ UNCHANGED <<account_exists, account_currency>>
                  /\ IF VerifyExceptCatches(exc)
                     THEN /\ pc' = "fx_fallback"
                          /\ UNCHANGED <<outcome, result, error>>
                     ELSE Raise(exc)
  /\ UNCHANGED paymentVars
  /\ UNCHANGED <<pageVars, op, opsStarted, sentBefore, idx, enriched_accounts, balance_log, fx_log>>

\* lines 653-662: await self.get_fx_rates() inside the try block
RatesFxCall ==
  /\ pc = "fx_call"
  /\ op.name = "get_fx_rates_for_account"
  /\ \E ans \in FxAnswers :
       LET r == get_fx_rates(ans)
       IN /\ calls' = Append(calls, Call("FXRates", get_headers(nextUuid, nextUuid + 1), None, 0))
          /\ nextUuid' = nextUuid + 2
          /\ fx_log' = Append(fx_log, ans)
          /\ IF r.ok
             THEN Return(RatesResult(op.account_id, account_currency, r.value))
             ELSE IF VerifyExceptCatches(r.exc)
             THEN /\ pc' = "fx_fallback"
                  /\ UNCHANGED <<outcome, result, error>>
             ELSE Raise(r.exc)
  /\ UNCHANGED paymentVars
  /\ UNCHANGED <<pageVars, op, opsStarted, sentBefore, accounts_answer, accounts_response,
                 accounts_ok, idx, enriched_accounts, balance_log, account_exists,
                 account_currency>>

\* lines 664-675: the except block: await self.get_fx_rates() and the return
RatesFallbackCall ==
  /\ pc = "fx_fallback"
  /\ op.name = "get_fx_rates_for_account"
  /\ \E ans \in FxAnswers :
       LET r == get_fx_rates(ans)
       IN /\ calls' = Append(calls, Call("FXRates", get_headers(nextUuid, nextUuid + 1), None, 0))
          /\ nextUuid' = nextUuid + 2
          /\ fx_log' = Append(fx_log, ans)
          /\ IF r.ok
             THEN Return(RatesFallbackResult(op.account_id, r.value))
             ELSE Raise(r.exc)
  /\ UNCHANGED paymentVars
  /\ UNCHANGED <<pageVars, op, opsStarted, sentBefore, accounts_answer, accounts_response,
                 accounts_ok, idx, enriched_accounts, balance_log, account_exists,
                 account_currency>>

\* lines 696-711: await self.get_fx_quote(target_currency, amount) in the try block
QuoteFxCall ==
  /\ pc = "fx_call"
  /\ op.name = "get_fx_quote_for_account"
  /\ \E ans \in FxAnswers :
       LET r == get_fx_quote(ans, op.target_currency, op.amount, nextUuid + 2)
       IN /\ calls' = Append(calls, Call("FXQuote", FxQuoteHeaders(nextUuid, nextUuid + 1), None, 0))
          /\ nextUuid' = IF r.ok THEN nextUuid + 3 ELSE nextUuid + 2
          /\ fx_log' = Append(fx_log, ans)
          /\ IF r.ok
             THEN Return(QuoteResult(op.account_id, account_currency,
                                     op.target_currency, op.amount, r.value))
             ELSE IF VerifyExceptCatches(r.exc)
             THEN /\ pc' = "fx_fallback"
                  /\ UNCHANGED <<outcome, result, error>>
             ELSE Raise(r.exc)
  /\ UNCHANGED paymentVars
  /\ UNCHANGED <<pageVars, op, opsStarted, sentBefore, accounts_answer, accounts_response,
                 accounts_ok, idx, enriched_accounts, balance_log, account_exists,
                 account_currency>>

\* lines 713-723: the except block: await self.get_fx_quote(...) and the return
QuoteFallbackCall ==
  /\ pc = "fx_fallback"
  /\ op.name = "get_fx_quote_for_account"
  /\ \E ans \in FxAnswers :
       LET r == get_fx_quote(ans, op.target_currency, op.amount, nextUuid + 2)
       IN /\ calls' = Append(calls, Call("FXQuote", FxQuoteHeaders(nextUuid, nextUuid + 1), None, 0))
          /\ nextUuid' = IF r.ok THEN nextUuid + 3 ELSE nextUuid + 2
          /\ fx_log' = Append(fx_log, ans)
          /\ IF r.ok
             THEN Return(QuoteFallbackResult(op.account_id, r.value))
             ELSE Raise(r.exc)
  /\ UNCHANGED paymentVars
  /\ UNCHANGED <<pageVars, op, opsStarted, sentBefore, accounts_answer, accounts_response,
                 accounts_ok, idx, enriched_accounts, balance_log, account_exists,
                 account_currency>>

\* ----------------------------------------------------- convert_currency
FromCurrencies == {"JOD", "USD"}

OnlyJodSupported ==
  [type |-> "ValueError", status |-> 0, text |-> "Only JOD base currency is supported"]

\* dict returned by convert_currency
ConvertResult(from_currency, to_currency, amount, quote) ==
  [from_currency |-> from_currency,
   to_currency |-> to_currency,
   original_amount |-> amount,
   converted_amount |-> Get(quote, "convertedAmount", amount),
   exchange_rate |-> Get(quote, "rate", DefaultRate),
   conversion_date |-> Get(quote, "timestamp", "nowZ")]

\* lines 1093-1098: the invocation; a base currency other than JOD raises
\* ValueError before any call
StartConvert ==
  \E from_currency \in FromCurrencies, to_currency \in TargetCurrencies,
     amount \in Amounts \ {NoneNum} :
    LET o == [NoOp EXCEPT !.name = "convert_currency", !.account_id = from_currency,
                          !.target_currency = to_currency, !.amount = amount]
    IN IF from_currency # "JOD"
       THEN /\ Invoke(o)
            /\ Raise(OnlyJodSupported)
            /\ partner_keys' = {}
            /\ effects' = 0
            /\ UNCHANGED <<nextUuid, last_consent>>
       ELSE Begin(o, "convert_call")

\* lines 1099-1108: await self.get_fx_quote(to_currency, amount) and the return
ConvertCall ==
  /\ pc = "convert_call"
  /\ \E ans \in FxAnswers :
       LET r == get_fx_quote(ans, op.target_currency, op.amount, nextUuid + 2)
       IN /\ calls' = Append(calls, Call("FXQuote", FxQuoteHeaders(nextUuid, nextUuid + 1), None, 0))
          /\ nextUuid' = IF r.ok THEN nextUuid + 3 ELSE nextUuid + 2
          /\ fx_log' = Append(fx_log, ans)
          /\ IF r.ok
             THEN Return(ConvertResult(op.account_id, op.target_currency, op.amount, r.value))
             ELSE Raise(r.exc)
  /\ UNCHANGED paymentVars
  /\ UNCHANGED <<pageVars, op, opsStarted, sentBefore, accounts_answer, accounts_response,
                 accounts_ok, idx, enriched_accounts, balance_log, account_exists,
                 account_currency>>

\* ------------------------------------------ consents, payments, transfers
permissions_1 == <<"ReadAccountsBasic", "ReadBalances">>
user_1 == "user_1"
payment_1 == [InstructedAmount |-> [Amount |-> 10000, Currency |-> "JOD"],
              CreditorAccount |-> [Identification |-> "acc_9"]]
transfer_1 == [fromAccount |-> "acc_2", toAccount |-> "acc_9", amount |-> 10000,
               currency |-> "JOD", description |-> None, transferType |-> "internal"]
ConsentIds == {"", "c1"}

\* payloads of the partner's success answers
consent_1 == [Data |-> [ConsentId |-> "c1", Status |-> "AwaitingAuthorisation",
                        ExpirationDateTime |-> "t_exp", CreationDateTime |-> "t_new"]]
ConsentBodies == {consent_1}
PaymentConsentBodies ==
  {[Data |-> [ConsentId |-> "c1", Status |-> st]] :
     st \in {"AwaitingAuthorisation", "Authorised"}}
PaymentBodies ==
  {[Data |-> [DomesticPaymentId |-> "p1", ConsentId |-> "c1",
              Status |-> "AcceptedSettlementInProcess"]]}
ConsentStatusBodies == {[consent_id |-> "c1", status |-> "Authorised"]}
TransferBodies == {[transferId |-> "t1", status |-> "completed"]}
TransactionsBodies == {[Data |-> [Transaction |-> <<>>]]}

\* the 2xx statuses of the universe
SuccessStatuses == {200, 201}

\* answers of an endpoint whose success payloads are bodies
PartnerAnswers(bodies) ==
  {HttpAnswer(st, b) : st \in SuccessStatuses, b \in bodies}
  \cup {HttpAnswer(st, EmptyDict) : st \in HttpStatuses \ SuccessStatuses}
  \cup {TransportFailure}

\* variant: only status 200 passes
raise_for_status_Only200(ans) ==
  IF ans.transport
  THEN [ok |-> FALSE, value |-> EmptyDict,
        exc |-> [type |-> "TransportError", status |-> 0, text |-> ans.text]]
  ELSE IF ans.status = 200
  THEN [ok |-> TRUE, value |-> ans.body, exc |-> NoExc]
  ELSE [ok |-> FALSE, value |-> EmptyDict,
        exc |-> [type |-> "HTTPStatusError", status |-> ans.status, text |-> ans.text]]

\* response.raise_for_status(); return response.json(): every 2xx status
\* passes, any other raises httpx.HTTPStatusError, which holds the response
raise_for_status(ans) ==
  IF ans.transport
  THEN [ok |-> FALSE, value |-> EmptyDict,
        exc |-> [type |-> "TransportError", status |-> 0, text |-> ans.text]]
  ELSE IF ans.status \in 200..299
  THEN [ok |-> TRUE, value |-> ans.body, exc |-> NoExc]
  ELSE [ok |-> FALSE, value |-> EmptyDict,
        exc |-> [type |-> "HTTPStatusError", status |-> ans.status, text |-> ans.text]]

\* create_account_access_consent after the HTTP exchange: body on status 200,
\* otherwise Exception("JoPACC Consent API Error: <status> - <text>")
create_account_access_consent(ans) ==
  IF ans.transport
  THEN [ok |-> FALSE, value |-> EmptyDict,
        exc |-> [type |-> "TransportError", status |-> 0, text |-> ans.text]]
  ELSE IF ans.status = 200
  THEN [ok |-> TRUE, value |-> ans.body, exc |-> NoExc]
  ELSE [ok |-> FALSE, value |-> EmptyDict,
        exc |-> [type |-> "Exception", status |-> ans.status, text |-> ans.text]]

\* create_transfer after the HTTP exchange: body on status 200, otherwise
\* Exception("JoPACC Transfer API Error: <status> - <text>")
create_transfer(ans) ==
  IF ans.transport
  THEN [ok |-> FALSE, value |-> EmptyDict,
        exc |-> [type |-> "TransportError", status |-> 0, text |-> ans.text]]
  ELSE IF ans.status = 200
  THEN [ok |-> TRUE, value |-> ans.body, exc |-> NoExc]
  ELSE [ok |-> FALSE, value |-> EmptyDict,
        exc |-> [type |-> "Exception", status |-> ans.status, text |-> ans.text]]

\* the dicts of the sandbox branches
MockTransactions(account_id) ==
  [Data |-> [Transaction |-> <<[AccountId |-> account_id, TransactionId |-> "tx_1",
                                TransactionReference |-> "ATM001", Status |-> "Booked"]>>],
   Links |-> [Self |-> account_id]]
MockPaymentConsent(u, payment_data) ==
  [Data |-> [ConsentId |-> u, Status |-> "AwaitingAuthorisation",
             Initiation |-> payment_data],
   Links |-> [Self |-> u]]
MockPayment(u, consent_id, payment_data) ==
  [Data |-> [DomesticPaymentId |-> u, ConsentId |-> consent_id,
             Status |-> "AcceptedSettlementInProcess", Initiation |-> payment_data],
   Links |-> [Self |-> u]]
MockUserConsent(consent_response, user_id, permissions) ==
  [consent_id |-> consent_response.Data.ConsentId,
   user_id |-> user_id,
   permissions |-> permissions,
   status |-> "granted",
   consent_url |-> consent_response.Data.ConsentId,
   expires_at |-> consent_response.Data.ExpirationDateTime,
   created_at |-> consent_response.Data.CreationDateTime]
MockConsentStatus(consent_id) ==
  [consent_id |-> consent_id, status |-> "granted",
   permissions |-> <<"ais", "pis", "fps", "fx">>, expires_at |-> "now+90d"]

\* a sandbox branch: the method returns before any await, after drawing
\* `drawn` uuid4 values
InvokeMock(o, value, drawn) ==
  /\ Invoke(o)
  /\ Return(value)
  /\ nextUuid' = nextUuid + drawn
  /\ partner_keys' = {}
  /\ effects' = 0

\* what the caller learns about a payment consent from a returned payload
ConsentOf(payload) ==
  IF "Data" \in DOMAIN payload /\ {"ConsentId", "Status"} \subseteq DOMAIN payload.Data
  THEN [id |-> payload.Data.ConsentId, status |-> payload.Data.Status]
  ELSE NoConsent

\* the awaited HTTP exchange of a single-call operation, and its end
SingleCall(kind, json, ans, r, value) ==
  /\ calls' = Append(calls, PostCall(kind, get_headers(nextUuid, nextUuid + 1), json))
  /\ nextUuid' = nextUuid + 2
  /\ answer' = ans
  /\ IF r.ok THEN Return(value) ELSE Raise(r.exc)
  /\ UNCHANGED <<pageVars, op, opsStarted, sentBefore, accounts_answer, accounts_response,
                 accounts_ok, idx, enriched_accounts, balance_log, account_exists,
                 account_currency, fx_log, sandbox_mode>>

\* the partner executes a request it received unless it has executed one
\* with the same idempotency key
PartnerExecutes(key, processed) ==
  /\ effects' = IF processed /\ key \notin partner_keys THEN effects + 1 ELSE effects
  /\ partner_keys' = IF processed THEN partner_keys \cup {key} ELSE partner_keys

\* a success answer means the request was executed, an error answer that it
\* was not; a timeout or connection loss can come before or after execution
Consistent(ans, processed) ==
  ans.transport \/ (processed <=> ans.status \in SuccessStatuses)

StartAccessConsent ==
  Begin([NoOp EXCEPT !.name = "create_account_access_consent"], "consent_call")

\* lines 742-754: the POST of create_account_access_consent
AccessConsentCall ==
  /\ pc = "consent_call"
  /\ op.name = "create_account_access_consent"
  /\ \E ans \in PartnerAnswers(ConsentBodies) :
       LET r == create_account_access_consent(ans)
       IN SingleCall("AccessConsent", [Data |-> [Permissions |-> permissions_1]],
                     ans, r, r.value)
  /\ UNCHANGED <<last_consent, partner_keys, effects>>

StartRequestUserConsent ==
  Begin([NoOp EXCEPT !.name = "request_user_consent"], "consent_call")

\* lines 1078-1091: await self.create_account_access_consent(...), then the
\* sandbox reshaping or the return of the consent response
RequestUserConsentCall ==
  /\ pc = "consent_call"
  /\ op.name = "request_user_consent"
  /\ \E ans \in PartnerAnswers(ConsentBodies) :
       LET r == create_account_access_consent(ans)
       IN SingleCall("AccessConsent", [Data |-> [Permissions |-> permissions_1]],
                     ans, r,
                     IF sandbox_mode /\ r.ok
                     THEN MockUserConsent(r.value, user_1, permissions_1)
                     ELSE r.value)
  /\ UNCHANGED <<last_consent, partner_keys, effects>>

StartConsentStatus ==
  \E consent_id \in {"c1"} :
    LET o == [NoOp EXCEPT !.name = "get_consent_status", !.consent_id = consent_id]
    IN IF sandbox_mode
       THEN InvokeMock(o, MockConsentStatus(consent_id), 0) /\ UNCHANGED last_consent
       ELSE Begin(o, "status_call")

\* lines 1122-1129: the GET of get_consent_status
ConsentStatusCall ==
  /\ pc = "status_call"
  /\ \E ans \in PartnerAnswers(ConsentStatusBodies) :
       LET r == raise_for_status(ans)
       IN SingleCall("ConsentStatus", [consent_id |-> op.consent_id], ans, r, r.value)
  /\ UNCHANGED <<last_consent, partner_keys, effects>>

StartTransactions ==
  \E account_id \in {"acc_2"} :
    LET o == [NoOp EXCEPT !.name = "get_account_transactions", !.account_id = account_id]
    IN IF sandbox_mode
       THEN InvokeMock(o, MockTransactions(account_id), 0) /\ UNCHANGED last_consent
       ELSE Begin(o, "transactions_call")

\* lines 829-844: the GET of get_account_transactions
TransactionsCall ==
  /\ pc = "transactions_call"
  /\ \E ans \in PartnerAnswers(TransactionsBodies) :
       LET r == raise_for_status(ans)
       IN SingleCall("Transactions", [account_id |-> op.account_id], ans, r, r.value)
  /\ UNCHANGED <<last_consent, partner_keys, effects>>

StartPaymentConsent ==
  LET o == [NoOp EXCEPT !.name = "create_payment_consent"]
      mock == MockPaymentConsent(nextUuid, payment_1)
  IN IF sandbox_mode
     THEN InvokeMock(o, mock, 1) /\ last_consent' = ConsentOf(mock)
     ELSE Begin(o, "payment_consent_call")

\* lines 864-881: the POST of create_payment_consent
PaymentConsentCall ==
  /\ pc = "payment_consent_call"
  /\ \E ans \in PartnerAnswers(PaymentConsentBodies) :
       LET r == raise_for_status(ans)
       IN /\ SingleCall("PaymentConsent",
                        [Data |-> [Initiation |-> payment_1],
                         Risk |-> [PaymentContextCode |-> "Other"]],
                        ans, r, r.value)
          /\ last_consent' = IF r.ok /\ ConsentOf(r.value) # NoConsent
                             THEN ConsentOf(r.value) ELSE last_consent
  /\ UNCHANGED <<partner_keys, effects>>

StartCreatePayment ==
  \E consent_id \in ConsentIds :
    LET o == [NoOp EXCEPT !.name = "create_payment", !.consent_id = consent_id]
    IN IF sandbox_mode
       THEN InvokeMock(o, MockPayment(nextUuid, consent_id, payment_1), 1)
            /\ UNCHANGED last_consent
       ELSE Begin(o, "payment_call")

\* lines 900-916: the POST of create_payment
CreatePaymentCall ==
  /\ pc = "payment_call"
  /\ \E ans \in PartnerAnswers(PaymentBodies), processed \in BOOLEAN :
       LET r == raise_for_status(ans)
       IN /\ Consistent(ans, processed)
          /\ SingleCall("Payment",
                        [Data |-> [ConsentId |-> op.consent_id, Initiation |-> payment_1]],
                        ans, r, r.value)
          /\ PartnerExecutes(nextUuid + 1, processed)
  /\ UNCHANGED last_consent

StartCreateTransfer ==
  Begin([NoOp EXCEPT !.name = "create_transfer"], "transfer_call")

\* lines 1029-1051: the POST of create_transfer
CreateTransferCall ==
  /\ pc = "transfer_call"
  /\ \E ans \in PartnerAnswers(TransferBodies), processed \in BOOLEAN :
       LET r == create_transfer(ans)
       IN /\ Consistent(ans, processed)
          /\ SingleCall("Transfer", transfer_1, ans, r, r.value)
          /\ PartnerExecutes(nextUuid + 1, processed)
  /\ UNCHANGED last_consent

\* the caller repeats a payment or transfer creation that ended in an error:
\* the same method is invoked again with the same arguments
RetryAfterError ==
  /\ pc = "done"
  /\ outcome = "raised"
  /\ op.name \in {"create_payment", "create_transfer"}
  /\ ~sandbox_mode
  /\ Invoke([op EXCEPT !.retry = TRUE])
  /\ pc' = IF op.name = "create_payment" THEN "payment_call" ELSE "transfer_call"
  /\ outcome' = "none"
  /\ result' = EmptyDict
  /\ error' = NoExc
  /\ UNCHANGED <<nextUuid, last_consent, partner_keys, effects>>

Next ==
  \/ StartAggregation
  \/ AggAccountsCall
  \/ AggBalanceCall
  \/ CancelAggregation
  \/ StartRates
  \/ StartQuote
  \/ FxVerifyCall
  \/ RatesFxCall
  \/ RatesFallbackCall
  \/ QuoteFxCall
  \/ QuoteFallbackCall
  \/ StartConvert
  \/ ConvertCall
  \/ StartAccessConsent
  \/ AccessConsentCall
  \/ StartRequestUserConsent
  \/ RequestUserConsentCall
  \/ StartConsentStatus
  \/ ConsentStatusCall
  \/ StartTransactions
  \/ TransactionsCall
  \/ StartPaymentConsent
  \/ PaymentConsentCall
  \/ StartCreatePayment
  \/ CreatePaymentCall
  \/ StartCreateTransfer
  \/ CreateTransferCall
  \/ RetryAfterError

Spec == Init /\ [][Next]_vars

\* the Dashboard component on its own
DashboardNext ==
  \/ DashboardMount
  \/ TryAgain
  \/ DashboardRequestSettles

DashboardSpec == Init /\ [][DashboardNext]_vars

\* the OffersPage component on its own
OffersNext ==
  \/ OffersMount
  \/ ToggleCustomerForm
  \/ TypeCustomerId
  \/ OffersHandleCustomerIdChange
  \/ OffersHandleAccountChange
  \/ OffersAccountsResponse
  \/ OffersOffersResponse

OffersSpec == Init /\ [][OffersNext]_vars

\* the MicroLoansPage component on its own
LoansNext ==
  \/ LoansMount
  \/ LoansAccountsResponse
  \/ LoansHandleAccountChange
  \/ EligibilityResponse
  \/ SetLoanAmount
  \/ SetSelectedBank
  \/ applyForLoan
  \/ ApplyResponse

LoansSpec == Init /\ [][LoansNext]_vars

\* ================================================================ claims
IsAggregation == op.name = "get_accounts_with_balances"
IsRates == op.name = "get_fx_rates_for_account"
IsQuote == op.name = "get_fx_quote_for_account"
Finished == pc = "done"

\* the partner did not answer the call with status 200
AnswerFailed(ans) == ans.transport \/ ans.status # 200

\* the accounts array of the raw accounts-list response
RawList == Get(accounts_response, "accounts", <<>>)

HasId(account) == "accountId" \in DOMAIN account /\ account.accountId # ""

\* the running operation was cancelled by its caller
Cancelled == error.type = "CancelledError"

\* C1: two-tier failure policy of get_accounts_with_balances.  When the
\* accounts-list call fails (non-200 status or transport error) the
\* aggregation ends in an error, returns no account list and makes no balance
\* call; when it succeeds the aggregation never ends in an error, whatever the
\* balance calls answer, and ends by returning an account list (the caller
\* cancelling the aggregation is not an answer of a call).
C1_TwoTierFailurePolicy ==
  IsAggregation /\ Len(calls) > 0 /\ ~Cancelled =>
    /\ AnswerFailed(accounts_answer) =>
         /\ Finished
         /\ outcome = "raised"
         /\ result = EmptyDict
         /\ Len(calls) = 1
    /\ ~AnswerFailed(accounts_answer) =>
         /\ outcome # "raised"
         /\ Finished => outcome = "returned" /\ "accounts" \in DOMAIN result

\* C1 witness: the accounts-list call succeeded, two balance calls were made
\* and both failed (one by status, one by transport), and the aggregation returned.
C1_Witness ==
  /\ IsAggregation /\ Finished /\ outcome = "returned"
  /\ Len(balance_log) = 2
  /\ balance_log[1].answer.transport
  /\ ~balance_log[2].answer.transport /\ balance_log[2].answer.status = 500

\* exactly one balance call of the finished aggregation failed
ExactlyOneBalanceFailure ==
  Cardinality({i \in DOMAIN balance_log : AnswerFailed(balance_log[i].answer)}) = 1

\* C2: when the balance call fails for exactly one of N accounts, the result
\* holds N accounts; the others carry the detailed_balances of their own
\* balance response; the failed one keeps its pre-enrichment balance, has an
\* empty detailed_balances and carries an explicit enrichment-failed marker
\* (a field that the raw account does not have).
C2_OneFailureIsFlagged ==
  IsAggregation /\ Finished /\ outcome = "returned" /\ ExactlyOneBalanceFailure =>
    /\ Len(result.accounts) = Len(RawList)
    /\ \A i \in DOMAIN balance_log :
         LET k == balance_log[i].idx
             ans == balance_log[i].answer
             returned == result.accounts[k]
         IN IF AnswerFailed(ans)
            THEN /\ returned.balance = RawList[k].balance
                 /\ "detailed_balances" \in DOMAIN returned
                 /\ returned.detailed_balances = <<>>
                 /\ (DOMAIN returned) \ (DOMAIN RawList[k] \cup {"detailed_balances"}) # {}
            ELSE /\ "detailed_balances" \in DOMAIN returned
                 /\ returned.detailed_balances = Get(ans.body, "balances", <<>>)

\* what the code does in the case of C2: N accounts, the others enriched from
\* their own response, the failed one returned exactly as the accounts-list
\* response gave it (no detailed_balances field, no marker).
C2_FailedAccountReturnedRaw ==
  IsAggregation /\ Finished /\ outcome = "returned" /\ ExactlyOneBalanceFailure =>
    /\ Len(result.accounts) = Len(RawList)
    /\ \A i \in DOMAIN balance_log :
         LET k == balance_log[i].idx
             ans == balance_log[i].answer
             returned == result.accounts[k]
         IN IF AnswerFailed(ans)
            THEN returned = RawList[k]
            ELSE /\ "detailed_balances" \in DOMAIN returned
                 /\ returned.detailed_balances = Get(ans.body, "balances", <<>>)

RECURSIVE SumCurrent(_, _)
SumCurrent(accs, i) ==
  IF i > Len(accs) THEN 0 ELSE accs[i].balance.current + SumCurrent(accs, i + 1)

EnrichmentKeys == {"detailed_balances", "balance_last_updated"}

\* C3: enrichment never changes the top-level balance.  For every returned
\* aggregation, account k of the result has the balance.current and
\* balance.available of account k of the raw response, the sums of
\* balance.current agree, and every field other than detailed_balances and
\* balance_last_updated is the raw one.
C3_BalancePreserved ==
  IsAggregation /\ Finished /\ outcome = "returned" =>
    /\ Len(result.accounts) = Len(RawList)
    /\ \A k \in DOMAIN RawList :
         /\ result.accounts[k].balance.current = RawList[k].balance.current
         /\ result.accounts[k].balance.available = RawList[k].balance.available
         /\ DOMAIN RawList[k] \subseteq DOMAIN result.accounts[k]
         /\ DOMAIN result.accounts[k] \subseteq DOMAIN RawList[k] \cup EnrichmentKeys
         /\ \A f \in (DOMAIN RawList[k]) \ EnrichmentKeys :
              result.accounts[k][f] = RawList[k][f]
    /\ SumCurrent(result.accounts, 1) = SumCurrent(RawList, 1)

\* C3 witness: a returned aggregation in which an account was enriched with a
\* balance line whose amount differs from the account's balance.current.
C3_Witness ==
  /\ IsAggregation /\ Finished /\ outcome = "returned"
  /\ \E k \in DOMAIN result.accounts :
       /\ "detailed_balances" \in DOMAIN result.accounts[k]
       /\ Len(result.accounts[k].detailed_balances) > 0
       /\ result.accounts[k].detailed_balances[1].amount # RawList[k].balance.current

AccountsListCalls == {i \in DOMAIN calls : calls[i].kind = "AccountsList"}
BalanceCalls == {i \in DOMAIN calls : calls[i].kind = "Balances"}

\* C4: call order in one aggregation.  The first call is the accounts-list
\* call and it is the only one; a balance call exists only after that call
\* returned with status 200; every balance call targets an accountId of the
\* accounts-list response.
C4_CallOrder ==
  IsAggregation =>
    /\ Cardinality(AccountsListCalls) <= 1
    /\ pc # "agg_accounts" => AccountsListCalls = {1}
    /\ \A i \in BalanceCalls :
         /\ i > 1
         /\ calls[1].kind = "AccountsList"
         /\ ~AnswerFailed(accounts_answer)
         /\ \E k \in DOMAIN RawList :
              HasId(RawList[k]) /\ RawList[k].accountId = calls[i].account_id

\* C4 witness: a finished aggregation that made two balance calls for two
\* different accounts.
C4_Witness ==
  /\ IsAggregation /\ Finished
  /\ Cardinality(BalanceCalls) = 2
  /\ calls[2].account_id # calls[3].account_id

\* C5: every outbound call carries an interaction id and an idempotency key
\* drawn for that call: within one operation no two calls share an interaction
\* id or an idempotency key, no id of one call is the key of another, and no
\* value was already sent by a call of an earlier operation.
C5_FreshIdsPerCall ==
  /\ \A i, j \in DOMAIN calls :
       i # j =>
         /\ calls[i].headers.x_interactions_id # calls[j].headers.x_interactions_id
         /\ calls[i].headers.x_idempotency_key # calls[j].headers.x_idempotency_key
         /\ calls[i].headers.x_interactions_id # calls[j].headers.x_idempotency_key
  /\ \A i \in DOMAIN calls :
       /\ calls[i].headers.x_interactions_id # calls[i].headers.x_idempotency_key
       /\ calls[i].headers.x_interactions_id \notin sentBefore
       /\ calls[i].headers.x_idempotency_key \notin sentBefore

\* C5 witness: a second operation, an aggregation with two balance calls for
\* two different accounts, after an operation that sent ids of its own.
C5_Witness ==
  /\ IsAggregation
  /\ sentBefore # {}
  /\ Cardinality(BalanceCalls) = 2
  /\ calls[2].account_id # calls[3].account_id

\* C6: header asymmetry.  No balance call carries x-customer-id; every
\* accounts-list call and every FX-rates call carries it.
C6_HeaderAsymmetry ==
  \A i \in DOMAIN calls :
    /\ calls[i].kind = "Balances" => "x_customer_id" \notin DOMAIN calls[i].headers
    /\ calls[i].kind \in {"AccountsList", "FXRates"} =>
         "x_customer_id" \in DOMAIN calls[i].headers

\* C6 witness: an aggregation whose accounts-list call carried the customer
\* id and whose balance call did not.
C6_Witness ==
  /\ IsAggregation
  /\ Len(calls) >= 2
  /\ "x_customer_id" \in DOMAIN calls[1].headers
  /\ calls[2].kind = "Balances"
  /\ "x_customer_id" \notin DOMAIN calls[2].headers

FxQuoteCalls == {i \in DOMAIN calls : calls[i].kind = "FXQuote"}

\* C7: the call made to obtain an FX quote (get_fx_quote) carries the
\* x-customer-id header, like the accounts-list and FX-rates calls.
C7_FxQuoteCarriesCustomerId ==
  \A i \in FxQuoteCalls : "x_customer_id" \in DOMAIN calls[i].headers

\* positions of the raw accounts-list response whose accountId is id
PositionsOf(id) ==
  {k \in DOMAIN RawList : "accountId" \in DOMAIN RawList[k] /\ RawList[k].accountId = id}

\* the accounts-list call errored, or the requested account is not in its response
VerificationFailed ==
  AnswerFailed(accounts_answer) \/ PositionsOf(op.account_id) = {}

RatesShape == {"account_id", "account_currency", "fx_data", "rates_for_account", "last_updated"}

\* C8: get_fx_rates_for_account never raises because of a verification
\* failure.  When the account is not found or the accounts-list call errors,
\* the operation goes on to issue the FX-rates call; it returns whenever that
\* call succeeds, and the result has the fields of the verified result plus a
\* non-empty warning; the only error it can end in is the FX-rates call's own.
C8_RatesDegradeNotRaise ==
  IsRates /\ Len(calls) >= 1 /\ VerificationFailed =>
    /\ ~Finished => pc = "fx_fallback" /\ outcome = "none"
    /\ Finished =>
         /\ Len(calls) = 2
         /\ calls[2].kind = "FXRates"
         /\ ~AnswerFailed(fx_log[1]) => outcome = "returned"
         /\ outcome = "returned" =>
              /\ DOMAIN result = RatesShape \cup {"warning"}
              /\ result.warning # ""
              /\ result.account_id = op.account_id
              /\ result.fx_data = fx_log[1].body
         /\ outcome = "raised" =>
              /\ AnswerFailed(fx_log[1])
              /\ error.type # "ValueError"
              /\ error.status = fx_log[1].status

\* C8 witness: the accounts-list call succeeded, the account was not in it,
\* and the operation returned a result with the warning.
C8_Witness ==
  /\ IsRates /\ Finished /\ outcome = "returned"
  /\ ~AnswerFailed(accounts_answer)
  /\ Len(RawList) > 0
  /\ PositionsOf(op.account_id) = {}
  /\ "warning" \in DOMAIN result

\* C9: every FX result (rates or quote) returned without the warning marker
\* refers to the account id asked for, that id is in the accounts array of a
\* status-200 accounts-list answer of the same operation, and account_currency
\* is the currency field of the first account with that id (JOD when that
\* account has no currency field).
C9_UnmarkedResultIsGrounded ==
  (IsRates \/ IsQuote) /\ Finished /\ outcome = "returned"
     /\ "warning" \notin DOMAIN result =>
    /\ result.account_id = op.account_id
    /\ ~AnswerFailed(accounts_answer)
    /\ calls[1].kind = "AccountsList"
    /\ PositionsOf(result.account_id) # {}
    /\ LET first == CHOOSE k \in PositionsOf(result.account_id) :
                      \A j \in PositionsOf(result.account_id) : k <= j
       IN result.account_currency = Get(RawList[first], "currency", "JOD")

\* C9 witness: a quote returned without warning for an account whose currency
\* in the accounts-list response is USD.
C9_Witness ==
  /\ IsQuote /\ Finished /\ outcome = "returned"
  /\ "warning" \notin DOMAIN result
  /\ result.account_currency = "USD"

\* the partner answered the FX quote call with status 200 and at least one rate
FxQuoteUsable(ans) == ~AnswerFailed(ans) /\ Len(Get(ans.body, "data", <<>>)) > 0

\* the accounts-list call succeeded and the requested id is not in its response
QuoteForUnknownAccount ==
  IsQuote /\ ~AnswerFailed(accounts_answer) /\ Len(calls) >= 1
    /\ PositionsOf(op.account_id) = {}

\* C10 as stated: get_fx_quote_for_account with an account id that is not in
\* the accounts list never raises: it returns a result with a populated
\* warning and account_currency JOD.
C10_UnknownAccountNeverRaises ==
  QuoteForUnknownAccount /\ Finished =>
    /\ outcome = "returned"
    /\ "warning" \in DOMAIN result /\ result.warning # ""
    /\ result.account_currency = "JOD"

\* C10 amended: get_fx_quote_for_account with an account id that is not in
\* the accounts list issues the FX quote call; it returns whenever that call
\* yields a rate, and the result then has a populated warning and
\* account_currency JOD; it raises only when the FX quote call itself fails,
\* with that call's error and never with the verification error.
C10_UnknownAccountDegrades ==
  QuoteForUnknownAccount =>
    /\ ~Finished => pc = "fx_fallback" /\ outcome = "none"
    /\ Finished =>
         /\ Len(calls) = 2
         /\ calls[2].kind = "FXQuote"
         /\ FxQuoteUsable(fx_log[1]) => outcome = "returned"
         /\ outcome = "returned" =>
              /\ "warning" \in DOMAIN result /\ result.warning # ""
              /\ result.account_id = op.account_id
              /\ result.account_currency = "JOD"
         /\ outcome = "raised" =>
              /\ ~FxQuoteUsable(fx_log[1])
              /\ error.type # "ValueError"

\* C10 witness: the accounts-list response holds a USD account, the requested
\* id is not in it, the quote is for USD, and the operation returned.
C10_Witness ==
  /\ QuoteForUnknownAccount /\ Finished /\ outcome = "returned"
  /\ Len(RawList) > 0
  /\ Get(RawList[1], "currency", "JOD") = "USD"
  /\ result.targetCurrency = "USD"

\* the FX answer the returned quote was built from
QuoteAnswer == fx_log[Len(fx_log)]
QuoteData == Get(QuoteAnswer.body, "data", <<>>)

\* positions of the rate list whose targetCurrency is the requested one
MatchingRates ==
  {i \in DOMAIN QuoteData : Get(QuoteData[i], "targetCurrency", None) = op.target_currency}

\* a returned quote that was built from the first rate because none matched
QuoteFellBack ==
  IsQuote /\ Finished /\ outcome = "returned" /\ MatchingRates = {}

\* the target currency a quote_for_account result reports at its top level
ReportedTarget ==
  IF "target_currency" \in DOMAIN result THEN result.target_currency
  ELSE result.targetCurrency

\* C11: FX quote fallback disclosure.  When no rate entry matches the
\* requested target currency, the first entry is used and the result of
\* get_fx_quote_for_account reports, at its top level, the target currency of
\* the entry used: it never shows the requested currency next to the rate of a
\* different currency.
C11_FallbackPairDisclosed ==
  QuoteFellBack =>
    /\ result.rate = Get(QuoteData[1], "conversionValue", DefaultRate)
    /\ ReportedTarget = Get(QuoteData[1], "targetCurrency", op.target_currency)
    /\ Get(QuoteData[1], "targetCurrency", op.target_currency) # op.target_currency =>
         ReportedTarget # op.target_currency

\* what the code does in the case of C11: the currency of the rate used is
\* always in the nested quote (quote_data.targetCurrency), and at the top level
\* only in the result of the except block.
C11_NestedQuoteDiscloses ==
  QuoteFellBack =>
    /\ result.quote_data.targetCurrency =
         Get(QuoteData[1], "targetCurrency", op.target_currency)
    /\ result.quote_data.rate = result.rate
    /\ "warning" \in DOMAIN result => ReportedTarget = result.quote_data.targetCurrency
    /\ "warning" \notin DOMAIN result => ReportedTarget = op.target_currency

\* the first rate entry whose targetCurrency is the requested one
FirstMatching == CHOOSE i \in MatchingRates : \A j \in MatchingRates : i <= j

\* a returned quote built from an entry that matches the requested currency
QuoteMatched ==
  IsQuote /\ Finished /\ outcome = "returned" /\ MatchingRates # {}

\* C12: exact-match quote.  When the rate list holds an entry for the
\* requested target currency, the quote reports that currency and the rate of
\* the first such entry, and whenever an amount is supplied (zero included)
\* convertedAmount is amount times that rate.
C12_ExactMatchRateAndConversion ==
  QuoteMatched =>
    LET q == result.quote_data
        entry == QuoteData[FirstMatching]
    IN /\ q.targetCurrency = op.target_currency
       /\ "conversionValue" \in DOMAIN entry => q.rate = entry.conversionValue
       /\ op.amount # NoneNum => q.convertedAmount = op.amount * q.rate

\* what the code does in the case of C12: the rate is the first matching
\* entry's, a non-zero amount is converted with it, and an amount of zero
\* yields no convertedAmount (None), like an absent amount.
C12_NonZeroAmountConverted ==
  QuoteMatched =>
    LET q == result.quote_data
        entry == QuoteData[FirstMatching]
    IN /\ q.targetCurrency = op.target_currency
       /\ "conversionValue" \in DOMAIN entry => q.rate = entry.conversionValue
       /\ op.amount \notin {NoneNum, 0} => q.convertedAmount = op.amount * q.rate
       /\ op.amount \in {NoneNum, 0} => q.convertedAmount = NoneNum

IsCreatePayment == op.name = "create_payment"
IsPaymentCreation == op.name \in {"create_payment", "create_transfer"}

\* the operations that have a sandbox branch
SandboxedOps ==
  {"get_account_transactions", "create_payment_consent", "create_payment",
   "request_user_consent", "get_consent_status"}

\* the partner answered with a 2xx status
AnswerSucceeded(ans) == ~ans.transport /\ ans.status \in 200..299

C14_AccountsListOnceAndErrors ==
  /\ Cardinality(AccountsListCalls) <= 1
  /\ IsAggregation /\ accounts_answer.status \in ErrorStatuses =>
       /\ Finished
       /\ Len(calls) = 1
       /\ outcome = "raised"
       /\ error.status = accounts_answer.status
       /\ error.text = accounts_answer.text
       /\ result = EmptyDict
       /\ enriched_accounts = <<>>
       /\ ~accounts_ok

\* C14 witness: an aggregation whose accounts-list call was answered 401 and
\* which ended in an error with status 401.
C14_Witness ==
  /\ IsAggregation /\ Finished
  /\ accounts_answer.status = 401
  /\ outcome = "raised" /\ error.status = 401

\* the payment names the consent last returned to the caller, and that
\* consent was returned with status AwaitingAuthorisation
ReferencesAwaitingConsent ==
  /\ IsCreatePayment
  /\ last_consent.status = "AwaitingAuthorisation"
  /\ op.consent_id = last_consent.id

\* C15: payment before authorisation.  A create_payment that references a
\* consent whose last known status is AwaitingAuthorisation cannot end without
\* having sent the payment request with that consent id, and its outcome is
\* the partner's response: the payload of a 2xx answer is returned as it is,
\* any other status or a transport failure is raised with the partner's status.
C15_UnauthorisedPaymentIsSent ==
  ReferencesAwaitingConsent /\ Finished =>
    /\ Len(calls) = 1
    /\ calls[1].kind = "Payment"
    /\ calls[1].json.Data.ConsentId = op.consent_id
    /\ IF AnswerSucceeded(answer)
       THEN outcome = "returned" /\ result = answer.body
       ELSE /\ outcome = "raised"
            /\ error.status = answer.status
            /\ error.text = answer.text

\* C15 witness: a payment consent was returned with AwaitingAuthorisation and
\* the next operation, create_payment for that consent, returned.
C15_Witness ==
  /\ ReferencesAwaitingConsent /\ Finished
  /\ opsStarted = 2
  /\ outcome = "returned"

\* C16: create_payment with an empty consent id fails locally: it ends in an
\* error and no request is sent for it.
C16_EmptyConsentIdFailsLocally ==
  IsCreatePayment /\ op.consent_id = "" =>
    /\ Len(calls) = 0
    /\ Finished => outcome = "raised"

\* C17: retry safety.  With a partner that executes a request once per
\* idempotency key, a payment or transfer creation that failed at the client
\* and is repeated by the caller takes effect at most once.
C17_RetryTakesEffectOnce ==
  IsPaymentCreation => effects <= 1

\* what the code does in the case of C17: every invocation sends a key of its
\* own, so the partner executes the request once per invocation it received.
C17_EffectPerAttempt ==
  IsPaymentCreation =>
    /\ effects = Cardinality(partner_keys)
    /\ effects <= (IF op.retry THEN opsStarted ELSE 1)

\* the answers to the balance calls made for position k of the raw list
OwnAnswers(k) ==
  {balance_log[i].answer : i \in {j \in DOMAIN balance_log : balance_log[j].idx = k}}

\* the record of account k as a function of the raw account and of the answer
\* to its own balance call
OwnRecord(k) ==
  IF OwnAnswers(k) = {} THEN RawList[k]
  ELSE LET ans == CHOOSE a \in OwnAnswers(k) : TRUE
       IN IF AnswerFailed(ans) THEN RawList[k]
          ELSE [f \in DOMAIN RawList[k] \cup EnrichmentKeys |->
                  IF f = "detailed_balances" THEN Get(ans.body, "balances", <<>>)
                  ELSE IF f = "balance_last_updated"
                  THEN Get(ans.body, "lastUpdated", Get(RawList[k], "lastUpdated", None))
                  ELSE RawList[k][f]]

TimedOutInBalances ==
  IsAggregation /\ Finished /\ Cardinality(BalanceCalls) > Len(balance_log)

\* C19: cancellation.  When the caller's timeout fires while balance calls
\* are pending, the aggregation returns the partially-enriched account list
\* (every account of the accounts-list response, those already enriched with
\* their balances) instead of ending in an error.
C19_TimeoutReturnsPartial ==
  TimedOutInBalances =>
    /\ outcome = "returned"
    /\ Len(result.accounts) = Len(RawList)

\* what the code does in the case of C19: the cancellation ends the
\* aggregation in CancelledError and nothing is returned.
C19_TimeoutPropagates ==
  TimedOutInBalances => outcome = "raised" /\ Cancelled /\ result = EmptyDict

ConsentPaymentOps ==
  {"create_account_access_consent", "get_consent_status", "create_payment_consent",
   "create_payment"}

\* C20: the consent and payment operations fail the whole operation on any
\* non-success partner response (the caller gets an error carrying the
\* partner's status and body, and no value) and return the partner's payload
\* unmodified on a success (2xx) response.
C20_ConsentPaymentPassThrough ==
  op.name \in ConsentPaymentOps /\ Finished =>
    /\ Len(calls) = 1
    /\ IF AnswerSucceeded(answer)
       THEN outcome = "returned" /\ result = answer.body
       ELSE /\ outcome = "raised"
            /\ result = EmptyDict
            /\ error.status = answer.status
            /\ error.text = answer.text

\* what the code does in the case of C20: create_account_access_consent
\* accepts status 200 only, the other three accept every 2xx status.
C20_PassThroughPerOperation ==
  op.name \in ConsentPaymentOps /\ Finished =>
    LET accepted == IF op.name = "create_account_access_consent"
                    THEN ~AnswerFailed(answer) ELSE AnswerSucceeded(answer)
    IN /\ Len(calls) = 1
       /\ IF accepted
          THEN outcome = "returned" /\ result = answer.body
          ELSE /\ outcome = "raised"
               /\ result = EmptyDict
               /\ error.status = answer.status
               /\ error.text = answer.text

\* C21: the customer id on an accounts-list call is the one the aggregation
\* was requested for: every accounts-list call of an aggregation carries, as
\* x-customer-id, the customer id of the request that caused it.
C21_CallerCustomerIdOnCall ==
  IsAggregation =>
    \A i \in AccountsListCalls : calls[i].headers.x_customer_id = op.customer_id

\* what the code does in the case of C21: the header is the value of the
\* process environment variable, whatever customer the request is for.
C21_EnvironmentCustomerIdOnCall ==
  \A i \in AccountsListCalls : calls[i].headers.x_customer_id = JOPACC_CUSTOMER_ID

IsConvert == op.name = "convert_currency"
IsFxResolver == IsRates \/ IsQuote

\* the accounts the partner holds for the customer: the whole holding when
\* the answer was a page of it, otherwise the accounts of the answer
Holding ==
  IF accounts_response = PartnerPage(BigHolding, 0, VerifyLimit)
  THEN BigHolding ELSE RawList

HeldIds ==
  {Holding[k].accountId : k \in {j \in DOMAIN Holding : "accountId" \in DOMAIN Holding[j]}}

\* the first FX call of the operation yielded what the operation needs
FirstFxCallSucceeded ==
  /\ Len(fx_log) >= 1
  /\ IF IsQuote THEN FxQuoteUsable(fx_log[1]) ELSE ~AnswerFailed(fx_log[1])

\* C22: verification against the customer's full account list.  For every
\* account the partner holds for the customer, at any position of the
\* partner's list, the FX resolver confirms it: when the accounts-list call
\* and the FX call succeed, the result is returned without the warning.
C22_VerifiedAgainstFullList ==
  IsFxResolver /\ Finished /\ ~AnswerFailed(accounts_answer)
     /\ op.account_id \in HeldIds /\ FirstFxCallSucceeded =>
    /\ outcome = "returned"
    /\ "warning" \notin DOMAIN result

\* what the code does in the case of C22: the verification sees the first
\* page of at most 50 accounts only.
C22_VerifiedAgainstFirstPage ==
  IsFxResolver /\ Finished /\ ~AnswerFailed(accounts_answer) /\ FirstFxCallSucceeded =>
    /\ outcome = "returned"
    /\ "warning" \notin DOMAIN result <=> PositionsOf(op.account_id) # {}
    /\ Len(RawList) <= VerifyLimit

\* the rates a successful FX-rates response contains, in either envelope
ContainedRates(body) ==
  IF "rates" \in DOMAIN body THEN body.rates ELSE Get(body, "data", <<>>)

\* C23: envelope normalization.  For a successful FX-rates response in either
\* envelope (a data array or a rates list) the rates_for_account of the
\* result of get_fx_rates_for_account are exactly the rates of the response.
C23_RatesNormalized ==
  IsRates /\ Finished /\ outcome = "returned" =>
    result.rates_for_account = ContainedRates(result.fx_data)

\* what the code does in the case of C23: rates_for_account is the rates key
\* of the response, empty for a response in the data envelope.
C23_RatesKeyOnly ==
  IsRates /\ Finished /\ outcome = "returned" =>
    result.rates_for_account = Get(result.fx_data, "rates", <<>>)

\* C24: one response classification for all operations.  Whenever an
\* operation made of a single call has ended on an HTTP answer, it returned
\* if and only if every other operation's reading of the same answer is a
\* success: the status test of the accounts-list call, of the consent
\* creation, of the transfer creation and of the payment operations agree.
C24_SharedClassification ==
  Finished /\ Len(calls) = 1 /\ answer # NoAnswer /\ ~answer.transport =>
    LET returned == outcome = "returned"
    IN /\ returned = raise_for_status(answer).ok
       /\ returned = create_account_access_consent(answer).ok
       /\ returned = create_transfer(answer).ok
       /\ returned = get_accounts_new(answer).ok

FxCalls == {i \in DOMAIN calls : calls[i].kind \in {"FXRates", "FXQuote"}}

\* C27: in the FX resolver the verification-failed warning is present iff
\* the verification failed.  When the account was confirmed, a returned result
\* has no warning and carries the confirmed account's currency, and the FX
\* call is issued once, whether it succeeds or fails.
C27_WarningIffVerificationFailed ==
  IsFxResolver /\ Finished =>
    /\ outcome = "returned" => ("warning" \in DOMAIN result <=> VerificationFailed)
    /\ ~VerificationFailed =>
         /\ Cardinality(FxCalls) = 1
         /\ outcome = "returned" => result.account_currency = account_currency

\* what the code does in the case of C27: a failure of the FX call after a
\* confirmed account enters the same except block: the FX call is issued a
\* second time and a result, if any, has the warning and currency JOD.
C27_FxFailureTakesFallback ==
  IsFxResolver /\ Finished /\ ~VerificationFailed /\ ~FirstFxCallSucceeded =>
    /\ Cardinality(FxCalls) = 2
    /\ outcome = "returned" =>
         "warning" \in DOMAIN result /\ result.account_currency = "JOD"

\* C28: shape of a successful aggregation.  The returned list has the length
\* and the order of the accounts array of the accounts-list response, an
\* account without an accountId is passed through as it is with no balance
\* call, every other account got one balance call, totalCount is the length
\* of the returned list and hasMore is the partner's (false when absent).
C28_ListShape ==
  IsAggregation /\ Finished /\ outcome = "returned" =>
    /\ Len(result.accounts) = Len(RawList)
    /\ \A k \in DOMAIN RawList :
         /\ [f \in DOMAIN RawList[k] |-> result.accounts[k][f]] = RawList[k]
         /\ IF HasId(RawList[k])
            THEN Cardinality({i \in DOMAIN balance_log : balance_log[i].idx = k}) = 1
            ELSE /\ result.accounts[k] = RawList[k]
                 /\ \A i \in DOMAIN balance_log : balance_log[i].idx # k
    /\ Cardinality(BalanceCalls) = Cardinality({k \in DOMAIN RawList : HasId(RawList[k])})
    /\ result.totalCount = Len(result.accounts)
    /\ result.hasMore = (IF "hasMore" \in DOMAIN accounts_response
                         THEN accounts_response.hasMore ELSE FALSE)

\* C28 witness: a returned aggregation of one enriched account whose
\* accounts-list response had no hasMore.
C28_Witness ==
  /\ IsAggregation /\ Finished /\ outcome = "returned"
  /\ "hasMore" \notin DOMAIN accounts_response
  /\ Len(result.accounts) = 1
  /\ "detailed_balances" \in DOMAIN result.accounts[1]

\* C28 witness of the pass-through: a returned aggregation of two accounts,
\* the first without accountId, the second enriched.
C28_PassThroughReached ==
  /\ IsAggregation /\ Finished /\ outcome = "returned"
  /\ Len(RawList) = 2
  /\ ~HasId(RawList[1])
  /\ "detailed_balances" \in DOMAIN result.accounts[2]

\* the rate a returned quote reports
QuoteRate == IF IsConvert THEN result.exchange_rate ELSE result.rate

\* C29: the rate of every returned FX quote (get_fx_quote through
\* get_fx_quote_for_account, or convert_currency) is a conversion value
\* present in the partner's FX response.
C29_RateIsPartnerSupplied ==
  (IsQuote \/ IsConvert) /\ Finished /\ outcome = "returned" =>
    \E i \in DOMAIN QuoteData :
      /\ "conversionValue" \in DOMAIN QuoteData[i]
      /\ QuoteRate = QuoteData[i].conversionValue

\* what the code does in the case of C29: the rate is the conversion value of
\* the entry used, and 1.0 when that entry has none.
C29_RateOfEntryOrDefault ==
  (IsQuote \/ IsConvert) /\ Finished /\ outcome = "returned" =>
    LET used == IF MatchingRates # {} THEN QuoteData[FirstMatching] ELSE QuoteData[1]
    IN QuoteRate = (IF "conversionValue" \in DOMAIN used
                    THEN used.conversionValue ELSE DefaultRate)

\* ---------------------------------------------------------------- C25
\* the initial load failed and every Try Again after it had both requests succeed
RetrySucceeded ==
  /\ Len(dash_fetches) >= 2
  /\ AllRejected(dash_fetches[1])
  /\ \A i \in 2..Len(dash_fetches) : AllFulfilled(dash_fetches[i])

\* C25: after an initial load in which the dashboard or the wallet request
\* failed, a Try Again whose two requests both succeed leaves the page showing
\* the dashboard content: the error state does not persist.
C25_RetryShowsContent == RetrySucceeded => DashboardScreen = "content"

\* what the component does instead: nothing ever resets error, so the error
\* screen stays once it is shown, with the loaded data behind it
C25_ErrorScreenStays == RetrySucceeded => DashboardScreen = "error" /\ dashboardData # None

\* ---------------------------------------------------------------- C26
\* every request the OffersPage sent has been answered
OffersSettled == offers_sent > 0 /\ offers_pending = <<>>

\* the accounts in the select and the offers in the grid came from requests made
\* with the customer id now in the form
ShownAccountsCurrent ==
  offers_accounts.ids = <<>> \/ offers_accounts.customer = offers_customerId
ShownOffersCurrent == offers = NoOffers \/ offers.customer = offers_customerId

\* C26: once every request in flight has settled, the accounts and the offers the
\* Offers page shows are those of the customer id entered last; the answer to a
\* request made for an earlier customer id never replaces them.
C26_ShowsCurrentCustomer == OffersSettled => ShownAccountsCurrent /\ ShownOffersCurrent

\* the race on its own: every request succeeded, the accounts are the current
\* customer's, and the offers are an earlier customer's whose answer came last
StaleOffersShown ==
  /\ OffersSettled
  /\ offers_error = None
  /\ offers_accounts.ids # <<>>
  /\ offers_accounts.customer = offers_customerId
  /\ offers # NoOffers
  /\ offers.customer # offers_customerId

\* ---------------------------------------------------------------- C30
\* every loan application posted carries an amount the backend's eligibility
\* result for its account allows
PostedWithinLimit ==
  \A k \in 1..Len(posted) :
    /\ posted[k].loan_amount > 0
    /\ posted[k].loan_amount <= MaxLoanAmount(posted[k].account_id)

\* the eligibility data behind the application form is the selected account's
EligibilityOfSelected ==
  ApplicationFormShown => eligibilityData.account = loans_selectedAccount

\* C30: the Micro-loans page posts a loan application only with an amount above 0
\* and at most the max_loan_amount of the eligibility result of the selected
\* account; whatever the order of account changes and eligibility answers, the
\* eligibility data that validates and shows the form is the selected account's.
C30_ValidatedAgainstSelected == PostedWithinLimit /\ EligibilityOfSelected

\* what applyForLoan does check: the amount against the eligibility data in state
C30_WithinEligibilityInState ==
  [][posted' # posted =>
       LET body == posted'[Len(posted')]
       IN /\ body.loan_amount > 0
          /\ body.loan_amount <= eligibilityData.max_loan_amount
          /\ body.account_id = loans_selectedAccount]_vars

====
